---- MODULE Spec2Model ----
(***************************************************************************)
(* The authority of one library (ServerLibrary) with its collaborators:    *)
(* the operation log, the baseline store, the replica registry, the        *)
(* presence map and the message sender.  Handlers are operators from the   *)
(* library's state (a record) and a message to the state after the         *)
(* handler; the actions apply them to the variables.                       *)
(***************************************************************************)
EXTENDS Integers, Sequences, FiniteSets, TLC

\* ------------------------------------------------------------------ bounds
\* Timestamps are 1..MaxTs; every timestamp names one candidate operation.
MaxTs == 3
\* Cap on the number of rebase timers scheduled and not yet run.
MaxPending == 2

\* ------------------------------------------------------------- value sets
\* null, for a timestamp (ackedLogicalTime, changesSince, globalAck)
NullTs == 0

Timestamps == 1..MaxTs
Oids == {"o1", "o2"}
ReplicaIds == {"rA", "rB"}
Users == {"u1", "u2"}
ClientKeys == {"k1", "k2", "k3", "k4"}
KeyOrder == <<"k1", "k2", "k3", "k4">>
ReadOnlyTypes == {"ReadOnlyPull", "ReadOnlyRealtime"}

\* the verified token of each connection
TokenOf(k) ==
    CASE k = "k1" -> [userId |-> "u1", type |-> "Realtime"]
      [] k = "k2" -> [userId |-> "u1", type |-> "Push"]
      [] k = "k3" -> [userId |-> "u2", type |-> "ReadOnlyRealtime"]
      [] OTHER    -> [userId |-> "u2", type |-> "ReadOnlyPull"]

NoReplica == [none |-> TRUE]
NoBaseline == [none |-> TRUE]
NoPresence == [none |-> TRUE]
NotConnected == "none"

Undefined == "undefined"
EmptySnapshot == [f |-> Undefined]

\* ------------------------------------------------------------- sequences
RECURSIVE SeqToSet(_)
SeqToSet(s) == IF s = <<>> THEN {} ELSE {Head(s)} \cup SeqToSet(Tail(s))

Last(s) == s[Len(s)]

MinTs(S) == CHOOSE t \in S : \A u \in S : t <= u
MaxOf(a, b) == IF a >= b THEN a ELSE b

\* the records of a set, ordered by timestamp ascending
RECURSIVE SortByTimestamp(_)
SortByTimestamp(S) ==
    IF S = {} THEN <<>>
    ELSE LET t == MinTs({o.timestamp : o \in S})
             o == CHOOSE x \in S : x.timestamp = t
         IN  <<o>> \o SortByTimestamp(S \ {o})

\* --------------------------------------------------------------- patches
\* applyPatch: one operation's data applied to a snapshot
applyPatch(snapshot, data) ==
    IF data.op = "set" THEN [snapshot EXCEPT !.f = data.value]
    ELSE [snapshot EXCEPT !.f = Undefined]

RECURSIVE applyAll(_, _)
applyAll(snapshot, ops) ==
    IF ops = <<>> THEN snapshot
    ELSE applyAll(applyPatch(snapshot, Head(ops).data), Tail(ops))

\* ---------------------------------------------- candidate inputs (clients)
\* The operation a client produced at HLC timestamp t: equal timestamps mean
\* the same producer and instant, so a timestamp names one operation.
OpAt(t) ==
    [oid |-> IF t % 3 = 0 THEN "o2" ELSE "o1",
     timestamp |-> t,
     data |-> IF t % 4 = 0 THEN [op |-> "delete"]
              ELSE IF t % 2 = 1 THEN [op |-> "set", value |-> "x"]
              ELSE [op |-> "set", value |-> "y"]]

AllOps == {OpAt(t) : t \in Timestamps}

\* operation lists of a message: ascending by timestamp, at most two long
OpLists ==
    {<<>>} \cup {<<OpAt(t)>> : t \in Timestamps}
           \cup {<<OpAt(p[1]), OpAt(p[2])>> :
                    p \in {q \in Timestamps \X Timestamps : q[1] < q[2]}}

\* the baseline a client holds for an oid after folding its operations up to t
ClientBaseline(oid, t) ==
    [oid |-> oid,
     snapshot |-> applyAll(EmptySnapshot,
                    SortByTimestamp({o \in AllOps : o.oid = oid /\ o.timestamp <= t})),
     timestamp |-> t]

BaselineLists ==
    {<<>>} \cup {<<ClientBaseline(OpAt(t).oid, t)>> : t \in Timestamps}


\* ------------------------------------------------------- OperationHistory
\* insertAll: idempotent on (oid, timestamp); a duplicate is ignored
RECURSIVE insertAll(_, _, _)
insertAll(log, replicaId, ops) ==
    IF ops = <<>> THEN log
    ELSE LET op == Head(ops)
             item == [oid |-> op.oid, timestamp |-> op.timestamp,
                      data |-> op.data, replicaId |-> replicaId]
             dup == \E o \in log : o.oid = op.oid /\ o.timestamp = op.timestamp
         IN  insertAll(IF dup THEN log ELSE log \cup {item}, replicaId, Tail(ops))

getAfter(log, timestamp) ==
    SortByTimestamp({o \in log : timestamp = NullTs \/ o.timestamp > timestamp})

getBefore(log, timestamp) ==
    SortByTimestamp({o \in log : o.timestamp < timestamp})

dropAll(log, ops) ==
    {o \in log : ~\E d \in SeqToSet(ops) : d.oid = o.oid /\ d.timestamp = o.timestamp}

\* -------------------------------------------------------------- Baselines
RECURSIVE upsertAll(_, _)
upsertAll(bases, list) ==
    IF list = <<>> THEN bases
    ELSE LET b == Head(list)
         IN  upsertAll([bases EXCEPT ![b.oid] =
                            [snapshot |-> b.snapshot, timestamp |-> b.timestamp]],
                       Tail(list))

getAllAfter(bases, timestamp) ==
    SortByTimestamp({[oid |-> oid, snapshot |-> bases[oid].snapshot,
                      timestamp |-> bases[oid].timestamp] :
                        oid \in {o \in Oids : bases[o] # NoBaseline
                                    /\ (timestamp = NullTs
                                        \/ bases[o].timestamp > timestamp)}})

RECURSIVE MaxTimestamp(_)
MaxTimestamp(ops) ==
    IF ops = <<>> THEN NullTs
    ELSE MaxOf(Head(ops).timestamp, MaxTimestamp(Tail(ops)))

\* applyOperations: ops applied in the order given to the existing baseline
\* (or to the empty object); the new timestamp is the greatest op timestamp
applyOperations(bases, oid, ops) ==
    LET old == IF bases[oid] = NoBaseline THEN EmptySnapshot ELSE bases[oid].snapshot
    IN  [bases EXCEPT ![oid] = [snapshot |-> applyAll(old, ops),
                                timestamp |-> MaxTimestamp(ops)]]

\* ----------------------------------------------------------- ReplicaInfos
isTruant(info) == info.lastSeen = "old"

getOrCreate(reps, replicaId, info) ==
    IF reps[replicaId] = NoReplica
    THEN LET created == [clientId |-> info.userId, type |-> info.type,
                         ackedLogicalTime |-> NullTs, lastSeen |-> "recent"]
         IN  [status |-> "new", replicaInfo |-> created,
              replicas |-> [reps EXCEPT ![replicaId] = created]]
    ELSE [status |-> IF isTruant(reps[replicaId]) THEN "truant" ELSE "existing",
          replicaInfo |-> reps[replicaId], replicas |-> reps]

replicasUpdateAcknowledged(reps, replicaId, timestamp) ==
    IF reps[replicaId] = NoReplica THEN reps
    ELSE [reps EXCEPT ![replicaId].ackedLogicalTime = MaxOf(@, timestamp)]

updateLastSeen(reps, replicaId) ==
    IF reps[replicaId] = NoReplica THEN reps
    ELSE [reps EXCEPT ![replicaId].lastSeen = "recent"]

deleteReplica(reps, replicaId) == [reps EXCEPT ![replicaId] = NoReplica]

\* the replicas whose acknowledgement gates compaction
Qualifying(reps, activeOverride) ==
    {r \in ReplicaIds : reps[r] # NoReplica
        /\ (r \in activeOverride
            \/ (~isTruant(reps[r]) /\ reps[r].type \notin ReadOnlyTypes))}

getGlobalAck(reps, activeOverride) ==
    LET q == Qualifying(reps, activeOverride)
    IN  IF q = {} \/ \E r \in q : reps[r].ackedLogicalTime = NullTs THEN NullTs
        ELSE MinTs({reps[r].ackedLogicalTime : r \in q})

\* --------------------------------------------------------------- Presence
presenceAll(pres) == {u \in Users : pres[u] # NoPresence}

presenceSet(pres, userId, entry) == [pres EXCEPT ![userId] = entry]

\* ---------------------------------------------------------- MessageSender
send(S, clientKey, msg) ==
    [S EXCEPT !.sent = @ \o <<[to |-> clientKey, msg |-> msg]>>]

broadcast(S, msg, omitKeys) ==
    LET keys == SelectSeq(KeyOrder,
                    LAMBDA k : S.connected[k] # NotConnected /\ k \notin omitKeys)
    IN  [S EXCEPT !.sent = @ \o [i \in 1..Len(keys) |-> [to |-> keys[i], msg |-> msg]]]

\* ---------------------------------------------------------- ServerLibrary
validateReplicaAccess(S, replicaId, info) ==
    LET replica == S.replicas[replicaId]
    IN  ~(replica # NoReplica /\ replica.clientId # info.userId)

hasWriteAccessPullOnly(info) == info.type # "ReadOnlyPull"

hasWriteAccess(info) ==
    info.type # "ReadOnlyPull" /\ info.type # "ReadOnlyRealtime"

removeExtraOperationData(operation) ==
    [oid |-> operation.oid, timestamp |-> operation.timestamp, data |-> operation.data]

\* pendingRebaseTimeout is never assigned: every call schedules a timer
enqueueRebase(S) ==
    IF S.pendingRebaseTimeout = "null" THEN [S EXCEPT !.timers = @ + 1] ELSE S

rebroadcastOperationsByReplica(S, clientKey, replicaId, ops, baselines) ==
    IF Len(ops) = 0 /\ Len(baselines) = 0 THEN S
    ELSE broadcast(S, [type |-> "op-re", operations |-> ops, baselines |-> baselines,
                       replicaId |-> replicaId,
                       globalAckTimestamp |-> getGlobalAck(S.replicas, {})],
                   {k \in ClientKeys : S.connected[k] = replicaId})

rebroadcastOperations(S, clientKey, replicaId, ops, baselines) ==
    IF Len(ops) = 0 /\ Len(baselines) = 0 THEN S
    ELSE broadcast(S, [type |-> "op-re", operations |-> ops, baselines |-> baselines,
                       replicaId |-> replicaId,
                       globalAckTimestamp |-> getGlobalAck(S.replicas, {})],
                   {clientKey})

handleOperationKeyedByReplica(S, message, clientKey, info) ==
    IF ~hasWriteAccess(info) THEN send(S, clientKey, [type |-> "forbidden"])
    ELSE LET S1 == [S EXCEPT !.operations = @ \cup
                        {[oid |-> o.oid, timestamp |-> o.timestamp, data |-> o.data,
                          replicaId |-> message.replicaId] :
                            o \in SeqToSet(message.operations)}]
             S2 == enqueueRebase(S1)
         IN  rebroadcastOperations(S2, clientKey, message.replicaId,
                                   message.operations, <<>>)

handleOperationSuperseding(S, message, clientKey, info) ==
    IF ~hasWriteAccess(info) THEN send(S, clientKey, [type |-> "forbidden"])
    ELSE LET given == SeqToSet(message.operations)
             kept == {o \in S.operations :
                         \A n \in given : ~(n.oid = o.oid /\ n.data.op = o.data.op)}
             S1 == [S EXCEPT !.operations =
                        insertAll(kept, message.replicaId, message.operations)]
             S2 == enqueueRebase(S1)
         IN  rebroadcastOperations(S2, clientKey, message.replicaId,
                                   message.operations, <<>>)

handleOperation(S, message, clientKey, info) ==
    IF ~hasWriteAccess(info) THEN send(S, clientKey, [type |-> "forbidden"])
    ELSE LET S1 == [S EXCEPT !.operations =
                        insertAll(@, message.replicaId, message.operations)]
             S2 == enqueueRebase(S1)
         IN  rebroadcastOperations(S2, clientKey, message.replicaId,
                                   message.operations, <<>>)

\* resyncAll: the registry forgets the replica before it is looked up
forgetOnResyncNever(reps, message) == reps

forgetOnResync(reps, message) ==
    IF message.resyncAll THEN deleteReplica(reps, message.replicaId) ELSE reps

changesSinceUnlessNew(status, clientReplicaInfo) ==
    IF status # "new" THEN clientReplicaInfo.ackedLogicalTime ELSE NullTs

changesSinceOf(status, clientReplicaInfo) ==
    IF status = "existing" THEN clientReplicaInfo.ackedLogicalTime ELSE NullTs

replicaShouldReset(message, status) == message.resyncAll \/ status # "existing"

isEmptyLibraryNever(changesSince, ops, baselines) == FALSE

isEmptyLibrary(changesSince, ops, baselines) ==
    changesSince = NullTs /\ Len(ops) = 0 /\ Len(baselines) = 0

handleSync(S, message, clientKey, info) ==
    LET replicaId == message.replicaId
        S1 == [S EXCEPT !.replicas = forgetOnResync(@, message)]
        got == getOrCreate(S1.replicas, replicaId, info)
        S2 == [S1 EXCEPT !.replicas = got.replicas]
        status == got.status
        clientReplicaInfo == got.replicaInfo
        changesSince == changesSinceOf(status, clientReplicaInfo)
        ops == getAfter(S2.operations, changesSince)
        baselines == getAllAfter(S2.baselines, changesSince)
    IN  send(S2, clientKey,
             [type |-> "sync-resp",
              operations |-> [i \in 1..Len(ops) |-> removeExtraOperationData(ops[i])],
              baselines |-> baselines,
              provideChangesSince |-> clientReplicaInfo.ackedLogicalTime,
              globalAckTimestamp |-> getGlobalAck(S2.replicas, {}),
              peerPresence |-> S2.presences,
              overwriteLocalData |-> replicaShouldReset(message, status)
                                     /\ ~isEmptyLibrary(changesSince, ops, baselines)])

updateAcknowledgedWheneverSet(S, replicaId, timestamp, info) ==
    LET S1 == [S EXCEPT !.replicas = replicasUpdateAcknowledged(@, replicaId, timestamp)]
        newGlobalAck == getGlobalAck(S1.replicas, {})
    IN  IF newGlobalAck # NullTs
        THEN broadcast(S1, [type |-> "global-ack", timestamp |-> newGlobalAck], {})
        ELSE S1

updateAcknowledged(S, replicaId, timestamp, info) ==
    LET priorGlobalAck == getGlobalAck(S.replicas, {})
        S1 == [S EXCEPT !.replicas = replicasUpdateAcknowledged(@, replicaId, timestamp)]
        newGlobalAck == getGlobalAck(S1.replicas, {})
    IN  IF newGlobalAck # NullTs /\ priorGlobalAck # newGlobalAck
        THEN broadcast(S1, [type |-> "global-ack", timestamp |-> newGlobalAck], {})
        ELSE S1

handleSyncStep2AckMessageTime(S, message, clientKey, info) ==
    IF ~hasWriteAccess(info) THEN send(S, clientKey, [type |-> "forbidden"])
    ELSE LET S1 == [S EXCEPT !.baselines = upsertAll(@, message.baselines)]
             S2 == [S1 EXCEPT !.operations =
                        insertAll(@, message.replicaId, message.operations)]
             S3 == rebroadcastOperations(S2, clientKey, message.replicaId,
                                         message.operations, message.baselines)
         IN  updateAcknowledged(S3, message.replicaId, message.timestamp, info)

handleSyncStep2(S, message, clientKey, info) ==
    IF ~hasWriteAccess(info) THEN send(S, clientKey, [type |-> "forbidden"])
    ELSE LET S1 == [S EXCEPT !.baselines = upsertAll(@, message.baselines)]
             S2 == [S1 EXCEPT !.operations =
                        insertAll(@, message.replicaId, message.operations)]
             S3 == rebroadcastOperations(S2, clientKey, message.replicaId,
                                         message.operations, message.baselines)
         IN  IF Len(message.operations) > 0
             THEN updateAcknowledged(S3, message.replicaId,
                                     Last(message.operations).timestamp, info)
             ELSE updateAcknowledged(S3, message.replicaId, message.timestamp, info)

\* operations.insertAll (931) throws after baselines.insertAll (928) returned
handleSyncStep2Interrupted(S, message, clientKey, info) ==
    [S EXCEPT !.baselines = upsertAll(@, message.baselines), !.thrown = TRUE]

handleAckOverwrite(S, message, clientKey, info) ==
    IF S.replicas[message.replicaId] = NoReplica THEN S
    ELSE [S EXCEPT !.replicas[message.replicaId].ackedLogicalTime = message.timestamp]

handleAck(S, message, clientKey, info) ==
    updateAcknowledged(S, message.replicaId, message.timestamp, info)

handleHeartbeat(S, message, clientKey) ==
    send(S, clientKey, [type |-> "heartbeat-response"])

\* profiles.get(userId): the profile a user's loader returns
profileOf(userId) == userId

\* presences.set(...), called when the first profiles.get has returned
presenceStore(S, message, info) ==
    [S EXCEPT !.presences = presenceSet(@, info.userId,
                    [presence |-> message.presence, replicaId |-> message.replicaId,
                     profile |-> profileOf(info.userId), id |-> info.userId])]

presenceAnnounceToOthers(S, message, clientKey, info) ==
    broadcast(S, [type |-> "presence-changed", replicaId |-> message.replicaId,
                  userInfo |-> [id |-> info.userId, presence |-> message.presence,
                                profile |-> profileOf(info.userId),
                                replicaId |-> message.replicaId]], {clientKey})

\* sender.broadcast(...), called when the second profiles.get has returned
presenceAnnounce(S, message, clientKey, info) ==
    broadcast(S, [type |-> "presence-changed", replicaId |-> message.replicaId,
                  userInfo |-> [id |-> info.userId, presence |-> message.presence,
                                profile |-> profileOf(info.userId),
                                replicaId |-> message.replicaId]], {})

\* the handler when neither profiles.get lets another message in
handlePresenceUpdate(S, message, clientKey, info) ==
    presenceAnnounce(presenceStore(S, message, info), message, clientKey, info)

receive(S, message, clientKey, info) ==
    IF ~validateReplicaAccess(S, message.replicaId, info)
    THEN [S EXCEPT !.thrown = TRUE]
    ELSE LET S1 == CASE message.type = "op" ->
                          handleOperation(S, message, clientKey, info)
                     [] message.type = "sync" ->
                          handleSync(S, message, clientKey, info)
                     [] message.type = "sync-step2" ->
                          handleSyncStep2(S, message, clientKey, info)
                     [] message.type = "ack" ->
                          handleAck(S, message, clientKey, info)
                     [] message.type = "heartbeat" ->
                          handleHeartbeat(S, message, clientKey)
                     [] message.type = "presence-update" ->
                          handlePresenceUpdate(S, message, clientKey, info)
                     [] OTHER -> S
         IN  [S1 EXCEPT !.replicas = updateLastSeen(@, message.replicaId)]

\* the bucketing loop of rebase: acc is [opsToApply, hardStops]
isBeforeGlobalAckOffByOne(globalAck, op) == globalAck > op.timestamp + 1

isBeforeGlobalAck(globalAck, op) == globalAck > op.timestamp

pushOpFront(list, op) == <<op>> \o list

pushOpReplacing(list, op) == <<op>>

pushOp(list, op) == Append(list, op)

RECURSIVE bucketOps(_, _, _)
bucketOps(ops, globalAck, acc) ==
    IF ops = <<>> THEN acc
    ELSE LET op == Head(ops)
         IN  IF op.oid \notin acc.hardStops /\ isBeforeGlobalAck(globalAck, op)
             THEN bucketOps(Tail(ops), globalAck,
                    [acc EXCEPT !.opsToApply[op.oid] = pushOp(@, op)])
             ELSE bucketOps(Tail(ops), globalAck,
                    [acc EXCEPT !.hardStops = @ \cup {op.oid}])

activeReplicaIdsNone(S) == {}

activeReplicaIds(S) == {S.presences[u].replicaId : u \in presenceAll(S.presences)}

rebaseGlobalAck(S) == getGlobalAck(S.replicas, activeReplicaIds(S))

rebaseOpsToApply(S) ==
    bucketOps(getBefore(S.operations, rebaseGlobalAck(S)), rebaseGlobalAck(S),
              [opsToApply |-> [o \in Oids |-> <<>>], hardStops |-> {}]).opsToApply

RECURSIVE applyBuckets(_, _, _)
applyBuckets(S, opsToApply, oids) ==
    IF oids = {} THEN S
    ELSE LET documentId == CHOOSE o \in oids : TRUE
             ops == opsToApply[documentId]
             S1 == [S EXCEPT !.baselines = applyOperations(@, documentId, ops),
                             !.operations = dropAll(@, ops)]
         IN  applyBuckets(S1, opsToApply, oids \ {documentId})

\* the oids of the list `rebases` computed by a pass
rebased(S) ==
    IF rebaseGlobalAck(S) = NullTs THEN {}
    ELSE {o \in Oids : rebaseOpsToApply(S)[o] # <<>>}

rebaseAnnouncingAbort(S) ==
    LET globalAck == rebaseGlobalAck(S)
    IN  IF globalAck = NullTs
        THEN broadcast(S, [type |-> "global-ack", timestamp |-> globalAck], {})
        ELSE LET opsToApply == rebaseOpsToApply(S)
                 S1 == applyBuckets(S, opsToApply, rebased(S))
             IN  IF rebased(S) # {}
                 THEN broadcast(S1, [type |-> "global-ack", timestamp |-> globalAck], {})
                 ELSE S1

rebase(S) ==
    LET globalAck == rebaseGlobalAck(S)
    IN  IF globalAck = NullTs THEN S
        ELSE LET opsToApply == rebaseOpsToApply(S)
                 S1 == applyBuckets(S, opsToApply, rebased(S))
             IN  IF rebased(S) # {}
                 THEN broadcast(S1, [type |-> "global-ack", timestamp |-> globalAck], {})
                 ELSE S1

\* the bucket the loop of a pass handles first: opsToApply is filled in
\* timestamp order, so it is the one of the oldest operation
firstBucket(S) ==
    CHOOSE o \in rebased(S) :
        \A o2 \in rebased(S) :
            rebaseOpsToApply(S)[o][1].timestamp <= rebaseOpsToApply(S)[o2][1].timestamp

\* operations.dropAll (1033) throws after baselines.applyOperations (1032)
\* returned, in the first round of the loop
rebaseInterrupted(S) ==
    [S EXCEPT !.baselines = applyOperations(@, firstBucket(S),
                                            rebaseOpsToApply(S)[firstBucket(S)]),
              !.thrown = TRUE]

\* remove(replicaId): the presence of a closed connection's replica is dropped
removeReplica(S, replicaId) ==
    LET lost == {u \in Users : S.presences[u] # NoPresence
                                /\ S.presences[u].replicaId = replicaId}
        S1 == [S EXCEPT !.presences = [u \in Users |->
                    IF u \in lost THEN NoPresence ELSE S.presences[u]]]
    IN  IF lost = {} THEN S1
        ELSE broadcast(S1, [type |-> "presence-offline", replicaId |-> replicaId,
                            userId |-> CHOOSE u \in lost : TRUE], {})

\* ---------------------------------------------------------- ReplicaEngine
\* A replica's local store: its operation log, its baselines, the outbound
\* buffer of operations not yet transmitted, the operations it produced, its
\* place in the outbound protocol and its clock (the greatest timestamp seen).
NewClient ==
    [ops |-> {}, baselines |-> [o \in Oids |-> NoBaseline], unsent |-> {},
     made |-> {}, phase |-> "offline", since |-> NullTs, clock |-> NullTs]

\* the greatest timestamp of a list of operations or baselines, and of t
RECURSIVE Latest(_, _)
Latest(list, t) ==
    IF list = <<>> THEN t ELSE Latest(Tail(list), MaxOf(t, Head(list).timestamp))

\* local rebase: per oid, the operations below t are folded into the baseline
RECURSIVE localRebase(_, _, _)
localRebase(c, t, oids) ==
    IF oids = {} THEN c
    ELSE LET oid == CHOOSE o \in oids : TRUE
             ops == SortByTimestamp({o \in c.ops : o.oid = oid /\ o.timestamp < t})
             c1 == IF ops = <<>> THEN c
                   ELSE [c EXCEPT !.baselines = applyOperations(@, oid, ops),
                                  !.ops = @ \ SeqToSet(ops)]
         IN  localRebase(c1, t, oids \ {oid})

\* inbound application: baselines are upserted first, then operations inserted
clientApply(c, operations, baselines) ==
    [c EXCEPT !.baselines = upsertAll(@, baselines),
              !.ops = @ \cup SeqToSet(operations),
              !.clock = Latest(operations, Latest(baselines, @))]

\* what a replica does with a message of the authority
clientReceive(c, msg) ==
    CASE msg.type = "sync-resp" ->
            LET c1 == IF msg.overwriteLocalData
                      THEN [c EXCEPT !.ops = c.unsent,
                                     !.baselines = [o \in Oids |-> NoBaseline]]
                      ELSE c
                c2 == clientApply(c1, msg.operations, msg.baselines)
            IN  [c2 EXCEPT !.since = msg.provideChangesSince, !.phase = "syncing"]
      [] msg.type = "op-re" -> clientApply(c, msg.operations, msg.baselines)
      [] msg.type = "global-ack" -> localRebase(c, msg.timestamp, Oids)
      [] OTHER -> c

\* the messages of s reach the replicas of the connections they are sent to
RECURSIVE deliverAll(_, _, _)
deliverAll(cl, s, conn) ==
    IF s = <<>> THEN cl
    ELSE LET r == conn[Head(s).to]
         IN  deliverAll(IF r = NotConnected THEN cl
                        ELSE [cl EXCEPT ![r] = clientReceive(@, Head(s).msg)],
                        Tail(s), conn)

\* the snapshot a replica shows for an oid
materialise(c, oid) ==
    LET b == c.baselines[oid]
    IN  applyAll(IF b = NoBaseline THEN EmptySnapshot ELSE b.snapshot,
                 SortByTimestamp({o \in c.ops :
                    o.oid = oid /\ (b = NoBaseline \/ o.timestamp > b.timestamp)}))

\* sync-step2: everything the replica has that is newer than provideChangesSince
newerThan(c, t) ==
    SortByTimestamp({o \in c.ops \cup c.unsent : t = NullTs \/ o.timestamp > t})

baselinesNewerThan(c, t) == getAllAfter(c.baselines, t)

\* ------------------------------------------------------------------ state
VARIABLES
    operations,   \* OperationHistory: the log, a set of OperationHistoryItem
    baselines,    \* Baselines: oid -> baseline or NoBaseline
    replicas,     \* ReplicaInfos: replicaId -> info or NoReplica
    presences,    \* Presence: userId -> entry or NoPresence
    connected,    \* MessageSender: clientKey -> replicaId of the open connection
    timers,       \* number of setTimeout(rebase) callbacks scheduled, not yet run
    sent,         \* messages the last step handed to the sender: <<[to, msg]>>
    thrown,       \* the last call of receive threw
    last,         \* the last step: what ran, the oids a rebase pass compacted,
                  \* and the timestamp an ack message carried
    delivered,    \* clientKey -> operations op-re carried to it on this connection
    clients,      \* replicaId -> the replica's local store and sync phase
    suspended,    \* the calls of handlePresenceUpdate waiting for profiles.get
    batch,        \* a replica's open batch: the operations made and not yet
                  \* transmitted, the replica's clock, and the batch it
                  \* committed last, as it was made
    oidCase,      \* two document roots, the range computed for the first, and
                  \* the OID last assigned under one of them
    databases,    \* Databases: cache, closeTimeouts and openedPreviously, the get calls
                  \* awaiting openDatabase, and every connection opened so far
    files,        \* FileManager: the cache of EntityFiles, local file storage, the sync
                  \* status, the load and add calls that are waiting, and what was asked of
                  \* the server
    called,       \* the call of a function of the CLI or of the index helpers that is looked
                  \* at: its arguments and, once it has run, what it gave
    project       \* the project's migrations directory as the CLI's runs leave it, and what the
                  \* last run was given and gave

vars == <<operations, baselines, replicas, presences, connected, timers, sent, thrown,
          last, delivered, clients, suspended, batch,
          oidCase,
          databases,
          files,
          called,
          project>>

\* what lies outside the authority: left alone where only the authority runs
outside == <<delivered, clients, suspended, batch, oidCase,
            databases,
            files,
            called,
            project>>

\* the library's state as the handlers see it, with nothing sent yet
Cur ==
    [operations |-> operations, baselines |-> baselines, replicas |-> replicas,
     presences |-> presences, connected |-> connected, timers |-> timers,
     pendingRebaseTimeout |-> "null", sent |-> <<>>, thrown |-> FALSE]

Event(type, oids) == [type |-> type, rebased |-> oids, timestamp |-> NullTs]

Become(S, ev) ==
    /\ last' = ev
    /\ operations' = S.operations
    /\ baselines' = S.baselines
    /\ replicas' = S.replicas
    /\ presences' = S.presences
    /\ connected' = S.connected
    /\ timers' = S.timers
    /\ sent' = S.sent
    /\ thrown' = S.thrown

\* Databases after its constructor: nothing cached, no timer, nothing opened
Libraries == {"l1", "l2"}
NoDb == [none |-> TRUE]

NewDatabases ==
    [cache |-> [l \in Libraries |-> NoDb],
     closeTimeouts |-> [l \in Libraries |-> FALSE],
     openedPreviously |-> [l \in Libraries |-> FALSE],
     opening |-> <<>>,
     connections |-> <<>>]

\* FileManager after its constructor, offline, with nothing stored locally
FileIds == {"f1", "f2"}
NoFile == [none |-> TRUE]
NoFileData == [none |-> TRUE]

NewFiles ==
    [cache |-> [id \in FileIds |-> NoFile],
     stored |-> [id \in FileIds |-> NoFileData],
     status |-> "paused",
     subscribed |-> [id \in FileIds |-> 0],
     loads |-> <<>>,
     adds |-> <<>>,
     requested |-> [id \in FileIds |-> 0],
     deferred |-> [id \in FileIds |-> FALSE],
     added |-> [id \in FileIds |-> FALSE]]

\* no document is looked at
NoOidCase == [root |-> <<>>, other |-> <<>>, range |-> <<>>, oid |-> <<>>, under |-> <<>>]

\* a directory with no migration in it and no index.ts, before the CLI ran
NoIndex == [none |-> TRUE]
EmptyDirectory == [files |-> {}, index |-> NoIndex]
NewProject ==
    [migrations |-> EmptyDirectory, before |-> EmptyDirectory, version |-> 0,
     listed |-> <<>>, ran |-> FALSE, migrationCreated |-> FALSE]

\* no call is looked at
NoCall == [fn |-> "none"]

InitCalled(case, c) ==
    /\ operations = {}
    /\ baselines = [o \in Oids |-> NoBaseline]
    /\ replicas = [r \in ReplicaIds |-> NoReplica]
    /\ presences = [u \in Users |-> NoPresence]
    /\ connected = [k \in ClientKeys |-> NotConnected]
    /\ timers = 0
    /\ sent = <<>>
    /\ thrown = FALSE
    /\ last = Event("init", {})
    /\ delivered = [k \in ClientKeys |-> {}]
    /\ clients = [r \in ReplicaIds |-> NewClient]
    /\ suspended = <<>>
    /\ batch = [ops |-> <<>>, clock |-> 0, committed |-> <<>>]
    /\ oidCase = case
    /\ project = NewProject
    /\ called = c
    /\ files = NewFiles
    /\ databases = NewDatabases

InitWith(case) == InitCalled(case, NoCall)

Init == InitWith(NoOidCase)

\* ---------------------------------------------------------------- actions
\* A connection k is opened for replica r / closed (the server calls remove).
Connect(k, r) ==
    /\ connected[k] = NotConnected
    /\ Become([Cur EXCEPT !.connected[k] = r], Event("connect", {}))

Disconnect(k) ==
    /\ connected[k] # NotConnected
    /\ Become(removeReplica([Cur EXCEPT !.connected[k] = NotConnected], connected[k]),
              Event("disconnect", {}))

\* receive(message, clientKey, info), one action per message type
ReceiveOp(k, r, ops) ==
    /\ timers < MaxPending
    /\ Become(receive(Cur, [type |-> "op", replicaId |-> r, operations |-> ops],
                      k, TokenOf(k)),
           Event("op", {}))

ReceiveSync(k, r, resyncAll) ==
    Become(receive(Cur, [type |-> "sync", replicaId |-> r, resyncAll |-> resyncAll],
                   k, TokenOf(k)),
           Event(IF resyncAll THEN "resync" ELSE "sync", {}))

ReceiveSyncStep2(k, r, ops, bases, t) ==
    Become(receive(Cur, [type |-> "sync-step2", replicaId |-> r, operations |-> ops,
                         baselines |-> bases, timestamp |-> t], k, TokenOf(k)),
           Event("sync-step2", {}))

ReceiveAck(k, r, t) ==
    Become(receive(Cur, [type |-> "ack", replicaId |-> r, timestamp |-> t],
                   k, TokenOf(k)),
           [Event("ack", {}) EXCEPT !.timestamp = t])

ReceiveHeartbeat(k, r) ==
    Become(receive(Cur, [type |-> "heartbeat", replicaId |-> r], k, TokenOf(k)),
           Event("heartbeat", {}))

ReceivePresenceUpdate(k, r) ==
    Become(receive(Cur, [type |-> "presence-update", replicaId |-> r,
                         presence |-> "p"], k, TokenOf(k)),
           Event("presence-update", {}))

\* a scheduled rebase timer fires
RunRebase ==
    /\ timers > 0
    /\ Become(rebase([Cur EXCEPT !.timers = @ - 1]),
              Event("rebase", rebased(Cur)))

\* a replica is not heard of for longer than the truancy threshold
TimePasses(r) ==
    /\ replicas[r] # NoReplica
    /\ replicas[r].lastSeen = "recent"
    /\ Become([Cur EXCEPT !.replicas[r].lastSeen = "old"], Event("time", {}))

\* ------------------------------------------------------- the core authority
\* Requests of two write-capable replicas without an open connection (push /
\* pull): k1 speaks for rA, k2 for rB.
Speakers == {<<"k1", "rA">>, <<"k2", "rB">>}

\* what a sync-step2 carries here: operations, or nothing but its send time
Step2Inputs ==
    {<<ops, <<>>, Last(ops).timestamp>> : ops \in OpLists \ {<<>>}}
    \cup {<<<<>>, <<>>, t>> : t \in Timestamps}

Next ==
    \/ \E p \in Speakers, ops \in OpLists \ {<<>>} :
          ReceiveOp(p[1], p[2], ops) /\ UNCHANGED outside
    \/ \E p \in Speakers :
          ReceiveSync(p[1], p[2], FALSE) /\ UNCHANGED outside
    \/ \E p \in Speakers, i \in Step2Inputs :
          ReceiveSyncStep2(p[1], p[2], i[1], i[2], i[3]) /\ UNCHANGED outside
    \/ \E p \in Speakers, t \in Timestamps :
          ReceiveAck(p[1], p[2], t) /\ UNCHANGED outside
    \/ RunRebase /\ UNCHANGED outside

Spec == Init /\ [][Next]_vars

\* ------------------------------------------------------------ presence
\* Two replicas of one user (k1 as rA, k2 as rB, both of u1) connect, shake
\* hands, announce their presence and leave. handlePresenceUpdate awaits
\* profiles.get twice, before presences.set and before sender.broadcast: at
\* each await the call is suspended and the loader decides when it goes on.
MaxSuspended == 2

PresenceInputs == {<<"k1", "rA", "p">>, <<"k2", "rB", "q">>}

\* receive(presence-update) up to the first await
SuspendPresenceUpdate(k, r, presence) ==
    /\ Len(suspended) < MaxSuspended
    /\ validateReplicaAccess(Cur, r, TokenOf(k))
    /\ Become(Cur, Event("presence-update", {}))
    /\ suspended' = Append(suspended,
            [message |-> [type |-> "presence-update", replicaId |-> r,
                          presence |-> presence],
             clientKey |-> k, await |-> "set"])
    /\ UNCHANGED <<delivered, clients, batch, oidCase, databases, files, called, project>>

\* a profiles.get returns: the call goes on to its next await, or to its end
\* (the updateLastSeen of receive)
ResumePresenceUpdate(i) ==
    /\ i \in 1..Len(suspended)
    /\ LET h == suspended[i]
           info == TokenOf(h.clientKey)
       IN  IF h.await = "set"
           THEN /\ Become(presenceStore(Cur, h.message, info),
                          Event("presence-set", {}))
                /\ suspended' = [suspended EXCEPT ![i].await = "broadcast"]
           ELSE /\ Become([presenceAnnounce(Cur, h.message, h.clientKey, info)
                             EXCEPT !.replicas =
                                updateLastSeen(@, h.message.replicaId)],
                          Event("presence-changed", {}))
                /\ suspended' = SubSeq(suspended, 1, i - 1)
                                  \o SubSeq(suspended, i + 1, Len(suspended))
    /\ UNCHANGED <<delivered, clients, batch, oidCase, databases, files, called, project>>

NextPresence ==
    \/ \E p \in Speakers : Connect(p[1], p[2]) /\ UNCHANGED outside
    \/ \E p \in Speakers : Disconnect(p[1]) /\ UNCHANGED outside
    \/ \E p \in Speakers : ReceiveSync(p[1], p[2], FALSE) /\ UNCHANGED outside
    \/ \E r \in ReplicaIds : TimePasses(r) /\ UNCHANGED outside
    \/ \E i \in PresenceInputs : SuspendPresenceUpdate(i[1], i[2], i[3])
    \/ \E i \in 1..MaxSuspended : ResumePresenceUpdate(i)

SpecPresence == Init /\ [][NextPresence]_vars

\* ------------------------------------------- a replica's batches (superseding)
\* Before a batch is transmitted the replica drops every operation a later
\* operation of the same batch supersedes.  The effect key of set(field) and of
\* delete(field) is the field, that of initialize is the whole object; list
\* mutations have none.
MaxClock == 4

FieldOps == {"set", "delete"}
ListOps == {"list-insert", "list-move", "list-delete"}

BatchShapes ==
    {[oid |-> "o1", op |-> "set", name |-> "f"],
     [oid |-> "o1", op |-> "set", name |-> "g"],
     [oid |-> "o1", op |-> "delete", name |-> "f"],
     [oid |-> "o2", op |-> "set", name |-> "f"],
     [oid |-> "o1", op |-> "initialize", name |-> ""],
     [oid |-> "o1", op |-> "list-insert", name |-> "g"],
     [oid |-> "o1", op |-> "list-move", name |-> "g"],
     [oid |-> "o1", op |-> "list-delete", name |-> "g"]}

\* the operation of a shape made at time t; its payload is its own
BatchOperation(shape, t) ==
    [oid |-> shape.oid, timestamp |-> t,
     data |-> [op |-> shape.op, name |-> shape.name, value |-> t]]

keyedAlways(operation) == TRUE

keyed(operation) == operation.data.op \in FieldOps

supersedesSameKindOnly(B, A) ==
    /\ B.oid = A.oid
    /\ \/ B.data.op = "initialize"
       \/ keyed(B) /\ B.data.op = A.data.op /\ B.data.name = A.data.name

\* B, made later than A in the same batch, supersedes A
supersedes(B, A) ==
    /\ B.oid = A.oid
    /\ \/ B.data.op = "initialize"
       \/ keyed(B) /\ keyed(A) /\ B.data.name = A.data.name

supersedeKeepingFirst(ops) ==
    LET keep(i) == \A j \in 1..(i - 1) : ~supersedes(ops[i], ops[j])
        F[i \in 0..Len(ops)] ==
            IF i = 0 THEN <<>>
            ELSE IF keep(i) THEN Append(F[i - 1], ops[i]) ELSE F[i - 1]
    IN  F[Len(ops)]

\* drop A, keep B
supersede(ops) ==
    LET keep(i) == \A j \in (i + 1)..Len(ops) : ~supersedes(ops[j], ops[i])
        F[i \in 0..Len(ops)] ==
            IF i = 0 THEN <<>>
            ELSE IF keep(i) THEN Append(F[i - 1], ops[i]) ELSE F[i - 1]
    IN  F[Len(ops)]

\* the replica makes an operation inside the open batch
BatchOp(shape) ==
    /\ batch.clock < MaxClock
    /\ batch' = [batch EXCEPT
                     !.ops = Append(@, BatchOperation(shape, batch.clock + 1)),
                     !.clock = @ + 1]
    /\ Become(Cur, Event("create", {}))
    /\ UNCHANGED <<delivered, clients, suspended, oidCase, databases, files, called, project>>

\* the batch is committed: what supersession leaves is transmitted, and the
\* next batch starts empty
BatchCommit(k, r) ==
    /\ batch.ops # <<>>
    /\ ReceiveOp(k, r, supersede(batch.ops))
    /\ batch' = [batch EXCEPT !.ops = <<>>, !.committed = batch.ops]
    /\ UNCHANGED <<delivered, clients, suspended, oidCase, databases, files, called, project>>

NextSuperseding ==
    \/ \E shape \in BatchShapes : BatchOp(shape)
    \/ BatchCommit("k1", "rA")

SpecSuperseding == Init /\ [][NextSuperseding]_vars

\* ------------------------------------------------------ object identifiers
\* An OID is a string, here the sequence of its characters; strings compare
\* by UTF-16 code unit.  "uFFFF" stands for the character U+FFFF and "u0000"
\* for U+0000.
CodeUnit ==
    (" " :> 32) @@ ("#" :> 35) @@ ("." :> 46) @@ ("/" :> 47) @@ ("0" :> 48)
    @@ ("1" :> 49) @@ (":" :> 58) @@ ("a" :> 97) @@ ("b" :> 98) @@ ("f" :> 102)
    @@ ("g" :> 103) @@ ("t" :> 116) @@ ("z" :> 122) @@ ("uFFFF" :> 65535)
    @@ ("u0000" :> 0) @@ ("E" :> 69) @@ ("F" :> 70)

\* s < t
Before(s, t) ==
    \E i \in 1..(Len(s) + 1) :
        /\ i <= Len(t)
        /\ \A j \in 1..(i - 1) : s[j] = t[j]
        /\ (i = Len(s) + 1 \/ CodeUnit[s[i]] < CodeUnit[t[i]])

isWithin(oid, start, end) ==
    /\ (oid = start \/ Before(start, oid))
    /\ (oid = end \/ Before(oid, end))

Collections == {<<"t">>, <<"t", "1">>}
RootIds == {<<"a">>, <<"b">>, <<" ">>, <<"a", "1">>}
RootOids == {c \o <<"/">> \o i : c \in Collections, i \in RootIds}
FieldPaths == {<<>>, <<".", "f">>, <<".", "f", ".", "g">>, <<".", "f", ".", "#">>}
LocalIds == {<<"0">>, <<"1">>, <<"z", "z">>, <<"uFFFF">>}

\* the OID of a sub-object of the document root, at fieldPath
createSubOid(root, fieldPath, localId) == root \o fieldPath \o <<":">> \o localId

getOidRangeBelowDot(oid) == <<oid, oid \o <<".", "uFFFF">>>>

getOidRange(oid) == <<oid, oid \o <<":", "uFFFF">>>>

InitOids ==
    \E r \in RootOids, o \in RootOids :
        InitWith([NoOidCase EXCEPT !.root = r, !.other = o])

ComputeOidRange ==
    /\ oidCase.range = <<>>
    /\ oidCase' = [oidCase EXCEPT !.range = getOidRange(oidCase.root)]
    /\ Become(Cur, Event("range", {}))
    /\ UNCHANGED <<delivered, clients, suspended, batch, databases, files, called, project>>

AssignSubOid(root, fieldPath, localId) ==
    /\ oidCase' = [oidCase EXCEPT !.oid = createSubOid(root, fieldPath, localId),
                                  !.under = root]
    /\ Become(Cur, Event("assign", {}))
    /\ UNCHANGED <<delivered, clients, suspended, batch, databases, files, called, project>>

NextOids ==
    \/ ComputeOidRange
    \/ \E root \in {oidCase.root, oidCase.other}, fieldPath \in FieldPaths,
          localId \in LocalIds : AssignSubOid(root, fieldPath, localId)

SpecOids == InitOids /\ [][NextOids]_vars

\* ---------------------------------------------------------------- Databases
\* A connection is known by the place it has in `connections`; there it is recorded
\* for which library it was opened, whether opening it ran the migrations and
\* whether destroy() was called on it.
MaxOpening == 2
MaxConnections == 3

\* enqueueClose: the old timer is cleared and a new one set
enqueueClose(D, libraryId) == [D EXCEPT !.closeTimeouts[libraryId] = TRUE]

\* close: clearTimeout, delete this.cache[libraryId], and destroy() on what
\* this.cache[libraryId] holds then, which is nothing
close(D, libraryId) ==
    LET D1 == [D EXCEPT !.closeTimeouts[libraryId] = FALSE]
        D2 == [D1 EXCEPT !.cache[libraryId] = NoDb]
    IN  IF D2.cache[libraryId] # NoDb
        THEN [D2 EXCEPT !.connections[D2.cache[libraryId].connection].destroyed = TRUE]
        ELSE D2

RECURSIVE closeEach(_, _)
closeEach(D, libraryIds) ==
    IF libraryIds = {} THEN D
    ELSE LET libraryId == CHOOSE l \in libraryIds : TRUE
         IN  closeEach(close(D, libraryId), libraryIds \ {libraryId})

\* destroy: close for every library in the cache
destroy(D) == closeEach(D, {l \in Libraries : D.cache[l] # NoDb})

\* get, with the library in the cache
GetCached(libraryId) ==
    /\ databases.cache[libraryId] # NoDb
    /\ databases' = enqueueClose(databases, libraryId)
    /\ Become(Cur, Event("get", {}))
    /\ UNCHANGED <<delivered, clients, suspended, batch, oidCase, files, called, project>>

\* get, with the library not in the cache: openDatabase is called with
\* skipMigrations as openedPreviously has it now, and get awaits it
GetOpens(libraryId) ==
    /\ databases.cache[libraryId] = NoDb
    /\ Len(databases.opening) < MaxOpening
    /\ Len(databases.opening) + Len(databases.connections) < MaxConnections
    /\ databases' = [databases EXCEPT !.opening =
            Append(@, [libraryId |-> libraryId,
                       skipMigrations |-> databases.openedPreviously[libraryId]])]
    /\ Become(Cur, Event("open", {}))
    /\ UNCHANGED <<delivered, clients, suspended, batch, oidCase, files, called, project>>

\* openDatabase resolves for the i-th waiting get: the connection is put into
\* the cache and returned
GetResumes(i) ==
    /\ i \in 1..Len(databases.opening)
    /\ LET call == databases.opening[i]
           db == Len(databases.connections) + 1
           D1 == [databases EXCEPT
                    !.opening = SubSeq(@, 1, i - 1) \o SubSeq(@, i + 1, Len(@)),
                    !.connections = Append(@, [libraryId |-> call.libraryId,
                                               migrated |-> ~call.skipMigrations,
                                               destroyed |-> FALSE]),
                    !.openedPreviously[call.libraryId] = TRUE,
                    !.cache[call.libraryId] = [connection |-> db]]
       IN  databases' = enqueueClose(D1, call.libraryId)
    /\ Become(Cur, Event("opened", {}))
    /\ UNCHANGED <<delivered, clients, suspended, batch, oidCase, files, called, project>>

\* close is called, by the application or by the timer enqueueClose set
CloseCalled(libraryId) ==
    /\ databases' = close(databases, libraryId)
    /\ Become(Cur, Event("close", {}))
    /\ UNCHANGED <<delivered, clients, suspended, batch, oidCase, files, called, project>>

CloseTimeoutFires(libraryId) ==
    /\ databases.closeTimeouts[libraryId]
    /\ databases' = close(databases, libraryId)
    /\ Become(Cur, Event("close-timeout", {}))
    /\ UNCHANGED <<delivered, clients, suspended, batch, oidCase, files, called, project>>

DestroyCalled ==
    /\ databases' = destroy(databases)
    /\ Become(Cur, Event("destroy", {}))
    /\ UNCHANGED <<delivered, clients, suspended, batch, oidCase, files, called, project>>

NextDatabases ==
    \/ \E l \in Libraries : GetCached(l)
    \/ \E l \in Libraries : GetOpens(l)
    \/ \E i \in 1..MaxOpening : GetResumes(i)
    \/ \E l \in Libraries : CloseCalled(l)
    \/ \E l \in Libraries : CloseTimeoutFires(l)
    \/ DestroyCalled

SpecDatabases == Init /\ [][NextDatabases]_vars

\* -------------------------------------------------------------- FileManager
\* `stored` is context.files, `status` is sync.status, `subscribed` counts the
\* onlineChange subscriptions load has made for a file and not yet removed.
\* `requested` counts the calls of sync.getFile; `deferred` and `added` record
\* that a load of the file was put off and that the file was passed to add.
MaxAdds == 1

\* FileData of a file, as the application adds it, as context.files.add
\* returns it, and as the server has it
AddedFile(id) == [id |-> id, remote |-> FALSE, from |-> "add"]
ProcessedFile(id) == [id |-> id, remote |-> FALSE, from |-> "processed"]
ServerFile(id) == [id |-> id, remote |-> TRUE, from |-> "server"]

\* new EntityFile(id, ...)
NewEntityFile == [data |-> NoFileData, loading |-> TRUE, failed |-> FALSE]

\* entityFile[UPDATE](fileData)
entityUpdate(F, id, fileData) ==
    [F EXCEPT !.cache[id] = [data |-> fileData, loading |-> FALSE, failed |-> FALSE]]

\* entityFile[MARK_FAILED]()
entityMarkFailed(F, id) ==
    [F EXCEPT !.cache[id].failed = TRUE, !.cache[id].loading = FALSE]

\* load stops waiting: the i-th waiting load is gone
loadDone(F, i) ==
    [F EXCEPT !.loads = SubSeq(@, 1, i - 1) \o SubSeq(@, i + 1, Len(@))]

\* load, called: it awaits context.files.get
loadCalled(F, id) == [F EXCEPT !.loads = Append(@, [id |-> id, await |-> "local"])]

loadAfterLocalAlwaysAsks(F, i, fileData) ==
    LET id == F.loads[i].id
    IN  IF fileData # NoFileData THEN loadDone(entityUpdate(F, id, fileData), i)
        ELSE [F EXCEPT !.loads[i].await = "server", !.requested[id] = @ + 1]

\* load, after context.files.get returned fileData
loadAfterLocal(F, i, fileData) ==
    LET id == F.loads[i].id
    IN  IF fileData # NoFileData THEN loadDone(entityUpdate(F, id, fileData), i)
        ELSE IF F.status # "active"
        THEN loadDone([F EXCEPT !.subscribed[id] = @ + 1, !.deferred[id] = TRUE], i)
        ELSE [F EXCEPT !.loads[i].await = "server", !.requested[id] = @ + 1]

\* load, after sync.getFile returned result or threw
loadAfterServer(F, i, result) ==
    LET id == F.loads[i].id
    IN  IF result = "success"
        THEN [entityUpdate(F, id, ServerFile(id)) EXCEPT !.loads[i].await = "store"]
        ELSE loadDone(entityMarkFailed(F, id), i)

\* load, after context.files.add(result.data) returned or threw
loadAfterStore(F, i, result) ==
    LET id == F.loads[i].id
    IN  IF result = "success"
        THEN loadDone([F EXCEPT !.stored[id] = ServerFile(id)], i)
        ELSE loadDone(entityMarkFailed(F, id), i)

\* the callback load subscribed: unsub(), then load(file)
RECURSIVE retryAll(_, _)
retryAll(F, ids) ==
    IF ids = {} THEN F
    ELSE LET id == CHOOSE x \in ids : TRUE
         IN  retryAll(loadCalled([F EXCEPT !.subscribed[id] = @ - 1], id),
                      IF F.subscribed[id] > 1 THEN ids ELSE ids \ {id})

\* get: the cached EntityFile, or a new one whose load is started
FileGet(id) ==
    /\ files' = IF files.cache[id] # NoFile THEN files
                ELSE loadCalled([files EXCEPT !.cache[id] = NewEntityFile], id)
    /\ Become(Cur, Event("file-get", {}))
    /\ UNCHANGED <<delivered, clients, suspended, batch, oidCase, databases, called, project>>

LoadResumes(i, result) ==
    /\ i \in 1..Len(files.loads)
    /\ LET call == files.loads[i]
       IN  files' =
             CASE call.await = "local" ->
                    loadAfterLocal(files, i, files.stored[call.id])
               [] call.await = "server" -> loadAfterServer(files, i, result)
               [] OTHER -> loadAfterStore(files, i, result)
    /\ Become(Cur, Event("file-load", {}))
    /\ UNCHANGED <<delivered, clients, suspended, batch, oidCase, databases, called, project>>

\* sync goes online or offline and tells its onlineChange subscribers
OnlineChange(online) ==
    /\ files.status # (IF online THEN "active" ELSE "paused")
    /\ LET F1 == [files EXCEPT !.status = IF online THEN "active" ELSE "paused"]
       IN  files' = IF online
                    THEN retryAll(F1, {id \in FileIds : F1.subscribed[id] > 0})
                    ELSE F1
    /\ Become(Cur, Event(IF online THEN "online" ELSE "offline", {}))
    /\ UNCHANGED <<delivered, clients, suspended, batch, oidCase, databases, called, project>>

\* add, up to its await of context.files.add
FileAdd(id) ==
    /\ Len(files.adds) < MaxAdds
    /\ ~files.added[id]
    /\ LET F1 == IF files.cache[id] = NoFile
                 THEN [files EXCEPT !.cache[id] = NewEntityFile] ELSE files
           F2 == IF ~AddedFile(id).remote THEN entityUpdate(F1, id, AddedFile(id))
                 ELSE F1
       IN  files' = [F2 EXCEPT !.adds = Append(@, [id |-> id]), !.added[id] = TRUE]
    /\ Become(Cur, Event("file-add", {}))
    /\ UNCHANGED <<delivered, clients, suspended, batch, oidCase, databases, called, project>>

\* add, after context.files.add returned the processed file
AddResumes(i) ==
    /\ i \in 1..Len(files.adds)
    /\ LET id == files.adds[i].id
           F1 == [files EXCEPT !.stored[id] = ProcessedFile(id),
                               !.adds = SubSeq(@, 1, i - 1) \o SubSeq(@, i + 1, Len(@))]
       IN  files' = entityUpdate(F1, id, ProcessedFile(id))
    /\ Become(Cur, Event("file-added", {}))
    /\ UNCHANGED <<delivered, clients, suspended, batch, oidCase, databases, called, project>>

NextFiles ==
    \/ \E id \in FileIds : FileGet(id)
    \/ \E i \in 1..Cardinality(FileIds), result \in {"success", "failure"} :
          LoadResumes(i, result)
    \/ \E online \in BOOLEAN : OnlineChange(online)
    \/ \E id \in FileIds : FileAdd(id)
    \/ \E i \in 1..MaxAdds : AddResumes(i)

SpecFiles == Init /\ [][NextFiles]_vars

\* ------------------------------------------------------------ compareObjects
\* JSON values: null, numbers, arrays, and objects whose properties are kept in
\* the order they were inserted, which is the order Object.keys gives them in.
\* A property that is not there reads as undefined.
Null == [t |-> "null"]
NoProperty == [t |-> "undefined"]
Number(v) == [t |-> "number", v |-> v]
Array(items) == [t |-> "array", items |-> items]
Object(props) == [t |-> "object", props |-> props]

PropertyKeys == {"x", "y"}
Leaves == {Null, Number("1"), Number("2")}

FlatObjects ==
    {Object(<<>>)}
    \cup {Object(<<[key |-> k, value |-> v]>>) : k \in PropertyKeys, v \in Leaves}
    \cup {Object(<<[key |-> k[1], value |-> v[1]], [key |-> k[2], value |-> v[2]]>>) :
            k \in {<<"x", "y">>, <<"y", "x">>}, v \in Leaves \X Leaves}

SmallObjects == {o \in FlatObjects : Len(o.props) <= 1}

JsonValues ==
    Leaves \cup FlatObjects
    \cup {Array(<<>>)}
    \cup {Array(<<v>>) : v \in Leaves \cup SmallObjects}
    \cup {Object(<<[key |-> "x", value |-> v]>>) : v \in SmallObjects}

\* the third argument: left out, or { ignoreKeys }
NoOptions == [none |-> TRUE]
CompareOptions == {NoOptions} \cup {[ignoreKeys |-> ks] : ks \in {{}, {"x"}, {"y"}}}

typeOf(x) == IF x.t \in {"null", "array", "object"} THEN "object" ELSE x.t
isArray(x) == x.t = "array"

\* a === b: the same primitive; two values built apart are never the same
\* object, and one object compared with itself comes out true either way
strictEquals(a, b) == a.t \in {"null", "undefined", "number"} /\ a = b

\* Object.keys(o)
objectKeys(o) == [i \in 1..Len(o.props) |-> o.props[i].key]

\* o[key]
getProperty(o, key) ==
    IF \E i \in 1..Len(o.props) : o.props[i].key = key
    THEN o.props[CHOOSE i \in 1..Len(o.props) : o.props[i].key = key].value
    ELSE NoProperty

\* [...new Set([...aKeys, ...bKeys])] after the ignored keys were deleted
RECURSIVE keysToCompare(_, _, _)
keysToCompare(all, seen, ignored) ==
    IF all = <<>> THEN <<>>
    ELSE IF Head(all) \in seen \cup ignored
         THEN keysToCompare(Tail(all), seen, ignored)
         ELSE <<Head(all)>> \o keysToCompare(Tail(all), seen \cup {Head(all)}, ignored)

\* compareObjects: "true", "false", or "throws" where Object.keys is given null.
\* every stops at the first item that is not true.
RECURSIVE compareObjects(_, _, _)
RECURSIVE everyItem(_, _, _)
RECURSIVE everyKey(_, _, _)
compareObjects(a, b, options) ==
    IF strictEquals(a, b) THEN "true"
    ELSE IF typeOf(a) # typeOf(b) THEN "false"
    ELSE IF typeOf(a) # "object" THEN "false"
    ELSE IF isArray(a) # isArray(b) THEN "false"
    ELSE IF isArray(a)
    THEN IF Len(a.items) # Len(b.items) THEN "false"
         ELSE everyItem(a.items, b.items, 1)
    ELSE IF a = Null \/ b = Null THEN "throws"
    ELSE IF Len(objectKeys(a)) # Len(objectKeys(b)) THEN "false"
    ELSE everyKey(a, b,
             keysToCompare(objectKeys(a) \o objectKeys(b), {},
                           IF options = NoOptions THEN {} ELSE options.ignoreKeys))

everyItem(as, bs, i) ==
    IF i > Len(as) THEN "true"
    ELSE LET r == compareObjects(as[i], bs[i], NoOptions)
         IN  IF r = "true" THEN everyItem(as, bs, i + 1) ELSE r

everyKey(a, b, keys) ==
    IF keys = <<>> THEN "true"
    ELSE LET r == compareObjects(getProperty(a, Head(keys)),
                                 getProperty(b, Head(keys)), NoOptions)
         IN  IF r = "true" THEN everyKey(a, b, Tail(keys)) ELSE r

InitCompare ==
    \E a \in JsonValues, b \in JsonValues, options \in CompareOptions :
        InitCalled(NoOidCase, [fn |-> "compareObjects", a |-> a, b |-> b,
                               options |-> options, result |-> "none",
                               swapped |-> "none"])

\* compareObjects(a, b, options) is called
CompareCalled ==
    /\ called.result = "none"
    /\ called' = [called EXCEPT !.result = compareObjects(called.a, called.b, called.options)]
    /\ Become(Cur, Event("compare", {}))
    /\ UNCHANGED <<delivered, clients, suspended, batch, oidCase, databases, files, project>>

\* compareObjects(b, a, options) is called
CompareSwappedCalled ==
    /\ called.swapped = "none"
    /\ called' = [called EXCEPT !.swapped = compareObjects(called.b, called.a, called.options)]
    /\ Become(Cur, Event("compare-swapped", {}))
    /\ UNCHANGED <<delivered, clients, suspended, batch, oidCase, databases, files, project>>

NextCompare == CompareCalled \/ CompareSwappedCalled

SpecCompare == InitCompare /\ [][NextCompare]_vars

\* ------------------------------------------------------- the CLI's migrations
\* A migration file v<n>.ts is known by its basename, "v" and the digits of n.
Versions == {1, 2, 3, 10}
Digits == <<"0", "1", "2", "3", "4", "5", "6", "7", "8", "9">>

\* `v${version}`
migrationName(version) ==
    <<"v">> \o (IF version >= 10 THEN <<Digits[(version \div 10) + 1]>> ELSE <<>>)
            \o <<Digits[(version % 10) + 1]>>

\* parseInt(name.replace('v', '').replace('.ts', ''))
RECURSIVE parseDigits(_, _)
parseDigits(chars, n) ==
    IF chars = <<>> THEN n
    ELSE parseDigits(Tail(chars),
                     10 * n + (CHOOSE d \in 0..9 : Digits[d + 1] = Head(chars)))

parseVersion(name) == parseDigits(Tail(name), 0)

\* migrationNames.sort((a, b) => aVersion - bVersion)
RECURSIVE insertByVersion(_, _)
insertByVersion(sorted, name) ==
    IF sorted = <<>> THEN <<name>>
    ELSE IF parseVersion(name) - parseVersion(Head(sorted)) < 0
         THEN <<name>> \o sorted
         ELSE <<Head(sorted)>> \o insertByVersion(Tail(sorted), name)

RECURSIVE sortByVersion(_)
sortByVersion(names) ==
    IF names = <<>> THEN <<>>
    ELSE insertByVersion(sortByVersion(SubSeq(names, 1, Len(names) - 1)),
                         names[Len(names)])

\* getMigrationIndex: the sort is in place, so the import lines and the
\* exported array follow the same order
getMigrationIndex(migrationNames) ==
    [imports |-> sortByVersion(migrationNames), exports |-> sortByVersion(migrationNames)]

\* the orders fs.readdir may list the files of a directory in
Listings(names) ==
    {l \in [1..Cardinality(names) -> names] :
        \A i, j \in 1..Cardinality(names) : l[i] = l[j] => i = j}

\* upsertMigration: what migrationsOutput holds afterwards and what is returned;
\* `listed` is what fs.readdir(migrationsDirectory) gave
upsertMigration(version, migrationsOutput, migrationsDirectory, listed) ==
    LET exists == migrationName(version) \in migrationsOutput.files
        written == [migrationsOutput EXCEPT !.files = @ \cup {migrationName(version)}]
    IN  [migrationsOutput |-> [written EXCEPT !.index = getMigrationIndex(listed)],
         returned |-> ~exists]

\* copy(from, to): the files of `from` are put into `to`, over those of the
\* same name
copy(from, to) ==
    [files |-> to.files \cup from.files,
     index |-> IF from.index # NoIndex THEN from.index ELSE to.index]

\* run, from the call of upsertMigration on, for a schema of version
\* newSchemaVersion: tempMigrations is a directory just made
RunCli(newSchemaVersion, listed) ==
    /\ listed \in Listings(project.migrations.files)
    /\ LET tempMigrations == EmptyDirectory
           upserted == upsertMigration(newSchemaVersion, tempMigrations,
                                       project.migrations, listed)
       IN  project' = [migrations |-> copy(upserted.migrationsOutput, project.migrations),
                       before |-> project.migrations,
                       version |-> newSchemaVersion,
                       listed |-> listed,
                       ran |-> TRUE,
                       migrationCreated |-> upserted.returned]
    /\ Become(Cur, Event("cli-run", {}))
    /\ UNCHANGED <<delivered, clients, suspended, batch, oidCase, databases, files, called>>

NextCli ==
    \E newSchemaVersion \in Versions :
        \E listed \in Listings(project.migrations.files) :
            RunCli(newSchemaVersion, listed)

SpecCli == Init /\ [][NextCli]_vars

\* ------------------------------------------------------- compound index values
\* The separator written '\uFFFFFE' is the character U+FFFF followed by "F" and
\* "E"; the upper bound separator '\uFFFFFF' is U+FFFF followed by "F" and "F".
COMPOUND_INDEX_SEPARATOR == <<"uFFFF", "F", "E">>
COMPOUND_INDEX_LOWER_BOUND_SEPARATOR == <<"u0000">>
COMPOUND_INDEX_UPPER_BOUND_SEPARATOR == <<"uFFFF", "F", "F">>

\* the strings indexed fields have
FieldValues ==
    {<<>>, <<"a">>, <<"b">>, <<"u0000">>,
     <<"a", "uFFFF", "F", "E", "b">>, <<"a", "uFFFF", "F", "F">>}

\* an indexed field: a string, or an array of strings
StringField(s) == [isArray |-> FALSE, values |-> <<s>>]
ArrayField(ss) == [isArray |-> TRUE, values |-> ss]
IndexableFields ==
    {StringField(s) : s \in FieldValues} \cup {ArrayField(<<<<"a">>, <<"b">>>>)}

\* fields.join(COMPOUND_INDEX_SEPARATOR)
RECURSIVE joinFields(_)
joinFields(fields) ==
    IF fields = <<>> THEN <<>>
    ELSE IF Len(fields) = 1 THEN fields[1]
    ELSE fields[1] \o COMPOUND_INDEX_SEPARATOR \o joinFields(Tail(fields))

createUpperBoundIndexValue(fields) ==
    joinFields(fields) \o COMPOUND_INDEX_UPPER_BOUND_SEPARATOR

createLowerBoundIndexValue(fields) ==
    joinFields(fields) \o COMPOUND_INDEX_SEPARATOR \o COMPOUND_INDEX_LOWER_BOUND_SEPARATOR

\* previousValue.concat(fieldValue) for each previousValue, then each fieldValue
RECURSIVE expandEach(_, _)
expandEach(value, field) ==
    IF value = <<>> THEN <<>>
    ELSE [i \in 1..Len(field.values) |-> Append(value[1], field.values[i])]
         \o expandEach(Tail(value), field)

\* expandArrayIndex up to its return: the two-level array `value`
RECURSIVE expandFields(_, _)
expandFields(value, fields) ==
    IF fields = <<>> THEN value
    ELSE expandFields(IF fields[1].isArray
                      THEN expandEach(value, fields[1])
                      ELSE [i \in 1..Len(value) |-> Append(value[i], fields[1].values[1])],
                      Tail(fields))

\* Array.from(new Set(strings))
RECURSIVE deduplicate(_, _)
deduplicate(strings, seen) ==
    IF strings = <<>> THEN <<>>
    ELSE IF Head(strings) \in seen THEN deduplicate(Tail(strings), seen)
    ELSE <<Head(strings)>> \o deduplicate(Tail(strings), seen \cup {Head(strings)})

expandArrayIndex(fields) ==
    LET value == expandFields(<<<<>>>>, fields)
    IN  deduplicate([i \in 1..Len(value) |-> joinFields(value[i])], {})

\* createCompoundIndexValue: one string, or the array of them
createCompoundIndexValue(fields) ==
    LET value == expandArrayIndex(fields)
    IN  IF Len(value) = 1 THEN [one |-> value[1]] ELSE [many |-> value]

InitIndexes ==
    \E prefix \in UNION {[1..n -> FieldValues] : n \in 1..2},
       fields \in UNION {[1..n -> IndexableFields] : n \in 2..3} :
        InitCalled(NoOidCase, [fn |-> "index", prefix |-> prefix, fields |-> fields,
                               bounds |-> <<>>, compound |-> <<>>])

\* createLowerBoundIndexValue(...prefix) and createUpperBoundIndexValue(...prefix)
CreateBounds ==
    /\ called.bounds = <<>>
    /\ called' = [called EXCEPT !.bounds = <<createLowerBoundIndexValue(called.prefix),
                                             createUpperBoundIndexValue(called.prefix)>>]
    /\ Become(Cur, Event("index-bounds", {}))
    /\ UNCHANGED <<delivered, clients, suspended, batch, oidCase, databases, files, project>>

\* createCompoundIndexValue(...fields)
CreateCompound ==
    /\ called.compound = <<>>
    /\ called' = [called EXCEPT !.compound = <<createCompoundIndexValue(called.fields)>>]
    /\ Become(Cur, Event("index-value", {}))
    /\ UNCHANGED <<delivered, clients, suspended, batch, oidCase, databases, files, project>>

NextIndexes == CreateBounds \/ CreateCompound

SpecIndexes == InitIndexes /\ [][NextIndexes]_vars

\* ------------------------------------------------ the authority with failures
\* The core authority where a call to a store may throw (or the process may be
\* stopped) between two statements that are not in one transaction.
FailureStep2Inputs ==
    {<<<<OpAt(t)>>, <<ClientBaseline("o1", 1)>>, t>> : t \in Timestamps \ {1}}

ReceiveSyncStep2Interrupted(k, r, ops, bases, t) ==
    /\ validateReplicaAccess(Cur, r, TokenOf(k))
    /\ hasWriteAccess(TokenOf(k))
    /\ Become(handleSyncStep2Interrupted(Cur,
                  [type |-> "sync-step2", replicaId |-> r, operations |-> ops,
                   baselines |-> bases, timestamp |-> t], k, TokenOf(k)),
              Event("sync-step2-failed", {}))

RunRebaseInterrupted ==
    /\ timers > 0
    /\ rebased(Cur) # {}
    /\ Become(rebaseInterrupted([Cur EXCEPT !.timers = @ - 1]),
              Event("rebase-failed", {firstBucket(Cur)}))

NextFailure ==
    \/ \E p \in Speakers : ReceiveSync(p[1], p[2], FALSE) /\ UNCHANGED outside
    \/ \E p \in Speakers, t \in Timestamps :
          ReceiveOp(p[1], p[2], <<OpAt(t)>>) /\ UNCHANGED outside
    \/ \E p \in Speakers, i \in FailureStep2Inputs :
          ReceiveSyncStep2(p[1], p[2], i[1], i[2], i[3]) /\ UNCHANGED outside
    \/ \E p \in Speakers, i \in FailureStep2Inputs :
          ReceiveSyncStep2Interrupted(p[1], p[2], i[1], i[2], i[3])
          /\ UNCHANGED outside
    \/ \E p \in Speakers, t \in Timestamps :
          ReceiveAck(p[1], p[2], t) /\ UNCHANGED outside
    \/ RunRebase /\ UNCHANGED outside
    \/ RunRebaseInterrupted /\ UNCHANGED outside

SpecFailure == Init /\ [][NextFailure]_vars

\* The core authority with its scheduling. A timer that was set fires: the
\* number of pending passes goes down, which only a pass that runs does. The
\* replicas keep acknowledging, and their acks are handled. Nothing obliges a
\* replica to write again.
TimerFires == timers > 0 /\ timers' = timers - 1

AckHandled ==
    \E t \in Timestamps : last' = [Event("ack", {}) EXCEPT !.timestamp = t]

SpecCompaction ==
    /\ Init
    /\ [][Next]_vars
    /\ WF_timers(TimerFires)
    /\ WF_last(AckHandled)

\* ------------------------------------------------- the compaction gate
\* A write-capable and a read-only replica, acknowledging, going truant and
\* showing presence: k1 (u1, Realtime) speaks for rA, k3 (u2, read-only) for rB.
GateSpeakers == {<<"k1", "rA">>, <<"k3", "rB">>}

NextGate ==
    \/ \E p \in GateSpeakers :
          ReceiveSync(p[1], p[2], FALSE) /\ UNCHANGED outside
    \/ \E p \in GateSpeakers, t \in Timestamps :
          ReceiveOp(p[1], p[2], <<OpAt(t)>>) /\ UNCHANGED outside
    \/ \E p \in GateSpeakers, t \in Timestamps :
          ReceiveAck(p[1], p[2], t) /\ UNCHANGED outside
    \/ \E p \in GateSpeakers :
          ReceivePresenceUpdate(p[1], p[2]) /\ UNCHANGED outside
    \/ \E r \in ReplicaIds : TimePasses(r) /\ UNCHANGED outside
    \/ RunRebase /\ UNCHANGED outside

SpecGate == Init /\ [][NextGate]_vars

\* ------------------------------------------------------------ handshakes
\* Two write-capable replicas shake hands, with or without resyncAll, upload,
\* acknowledge and go truant, over connections that open and close: k1 speaks
\* for rA, k2 for rB; a request needs no open connection (push / pull).
HandshakeStep2Inputs ==
    {<<<<OpAt(t)>>, <<>>, MaxTs>> : t \in {1, 2}}
    \cup {<<<<>>, <<ClientBaseline("o1", 1)>>, 1>>}

NextHandshake ==
    \/ \E p \in Speakers : Connect(p[1], p[2]) /\ UNCHANGED outside
    \/ \E p \in Speakers : Disconnect(p[1]) /\ UNCHANGED outside
    \/ \E p \in Speakers, resyncAll \in BOOLEAN :
          ReceiveSync(p[1], p[2], resyncAll) /\ UNCHANGED outside
    \/ \E p \in Speakers, i \in HandshakeStep2Inputs :
          ReceiveSyncStep2(p[1], p[2], i[1], i[2], i[3]) /\ UNCHANGED outside
    \/ \E p \in Speakers, t \in Timestamps :
          ReceiveAck(p[1], p[2], t) /\ UNCHANGED outside
    \/ \E r \in ReplicaIds : TimePasses(r) /\ UNCHANGED outside

SpecHandshake == Init /\ [][NextHandshake]_vars

\* ------------------------------------------------------ connected clients
\* Open connections: k1 and k2 are two connections of replica rA (user u1),
\* k3 and k4 two read-only connections of replica rB (user u2).
Connections == {<<"k1", "rA">>, <<"k2", "rA">>, <<"k3", "rB">>, <<"k4", "rB">>}

BroadcastOpLists == {<<>>, <<OpAt(1)>>, <<OpAt(2)>>, <<OpAt(1), OpAt(2)>>}

BroadcastStep2Inputs ==
    {<<ops, <<>>, Last(ops).timestamp>> : ops \in BroadcastOpLists \ {<<>>}}
    \cup {<<<<>>, bases, MaxTs>> : bases \in {<<>>, <<ClientBaseline("o1", 1)>>}}

IsConnected(k) == connected[k] # NotConnected

NextBroadcast ==
    \/ \E p \in Connections : Connect(p[1], p[2]) /\ UNCHANGED outside
    \/ \E k \in ClientKeys : Disconnect(k) /\ UNCHANGED outside
    \/ \E k \in ClientKeys, ops \in BroadcastOpLists :
          IsConnected(k) /\ ReceiveOp(k, connected[k], ops) /\ UNCHANGED outside
    \/ \E k \in ClientKeys :
          IsConnected(k) /\ ReceiveSync(k, connected[k], FALSE)
          /\ UNCHANGED outside
    \/ \E k \in ClientKeys, i \in BroadcastStep2Inputs :
          IsConnected(k) /\ ReceiveSyncStep2(k, connected[k], i[1], i[2], i[3])
          /\ UNCHANGED outside
    \/ RunRebase /\ UNCHANGED outside

SpecBroadcast == Init /\ [][NextBroadcast]_vars

\* ------------------------------------------------- rebase with connections
\* A writer (k1 as rA) and a read-only reader (k3 as rB) connect, announce
\* their presence, write and acknowledge while rebase passes run.
NextRebaseAbort ==
    \/ \E p \in GateSpeakers : Connect(p[1], p[2]) /\ UNCHANGED outside
    \/ \E p \in GateSpeakers : Disconnect(p[1]) /\ UNCHANGED outside
    \/ \E p \in GateSpeakers :
          IsConnected(p[1]) /\ ReceiveSync(p[1], p[2], FALSE) /\ UNCHANGED outside
    \/ \E p \in GateSpeakers :
          IsConnected(p[1]) /\ ReceivePresenceUpdate(p[1], p[2])
          /\ UNCHANGED outside
    \/ \E p \in GateSpeakers, t \in Timestamps :
          IsConnected(p[1]) /\ ReceiveOp(p[1], p[2], <<OpAt(t)>>)
          /\ UNCHANGED outside
    \/ \E p \in GateSpeakers, t \in Timestamps :
          IsConnected(p[1]) /\ ReceiveAck(p[1], p[2], t) /\ UNCHANGED outside
    \/ RunRebase /\ UNCHANGED outside

SpecRebaseAbort == Init /\ [][NextRebaseAbort]_vars

\* ------------------------------------------------------ replica ownership
\* Two users name the same replica: k1 (u1) and k3 (u2) both connect as rA;
\* whoever registers rA first owns it.
Claimants == {<<"k1", "rA">>, <<"k3", "rA">>}

NextOwnership ==
    \/ \E p \in Claimants : Connect(p[1], p[2]) /\ UNCHANGED outside
    \/ \E p \in Claimants : Disconnect(p[1]) /\ UNCHANGED outside
    \/ \E p \in Claimants, resyncAll \in BOOLEAN :
          IsConnected(p[1]) /\ ReceiveSync(p[1], connected[p[1]], resyncAll)
          /\ UNCHANGED outside
    \/ \E p \in Claimants, t \in Timestamps :
          IsConnected(p[1]) /\ ReceiveOp(p[1], connected[p[1]], <<OpAt(t)>>)
          /\ UNCHANGED outside
    \/ \E p \in Claimants, t \in Timestamps :
          IsConnected(p[1])
          /\ ReceiveSyncStep2(p[1], connected[p[1]], <<OpAt(t)>>, <<>>, t)
          /\ UNCHANGED outside
    \/ \E p \in Claimants, t \in Timestamps :
          IsConnected(p[1]) /\ ReceiveAck(p[1], connected[p[1]], t)
          /\ UNCHANGED outside
    \/ \E p \in Claimants :
          IsConnected(p[1]) /\ ReceiveHeartbeat(p[1], connected[p[1]])
          /\ UNCHANGED outside
    \/ \E p \in Claimants :
          IsConnected(p[1]) /\ ReceivePresenceUpdate(p[1], connected[p[1]])
          /\ UNCHANGED outside
    \/ RunRebase /\ UNCHANGED outside

SpecOwnership == Init /\ [][NextOwnership]_vars

\* ------------------------------------------------------------ deliveries
\* Two write-capable peers, k1 as rA and k2 as rB, with a record of the
\* operations that op-re messages have carried to each open connection.
Peers == {<<"k1", "rA">>, <<"k2", "rB">>}

OpKey(op) == <<op.oid, op.timestamp>>

\* the operations the op-re messages of s carry to connection k
RECURSIVE CarriedTo(_, _)
CarriedTo(s, k) ==
    IF s = <<>> THEN {}
    ELSE (IF Head(s).to = k /\ Head(s).msg.type = "op-re"
          THEN {OpKey(o) : o \in SeqToSet(Head(s).msg.operations)} ELSE {})
         \cup CarriedTo(Tail(s), k)

\* the sender delivers what the step handed to it
Deliver ==
    /\ delivered' = [k \in ClientKeys |-> delivered[k] \cup CarriedTo(sent', k)]
    /\ UNCHANGED <<clients, suspended, batch, oidCase, databases, files, called, project>>

\* a connection that opens or closes starts with nothing delivered
Reset(k) ==
    /\ delivered' = [delivered EXCEPT ![k] = {}]
    /\ UNCHANGED <<clients, suspended, batch, oidCase, databases, files, called, project>>

NextDelivery ==
    \/ \E p \in Peers : Connect(p[1], p[2]) /\ Reset(p[1])
    \/ \E p \in Peers : Disconnect(p[1]) /\ Reset(p[1])
    \/ \E p \in Peers, t \in Timestamps :
          IsConnected(p[1]) /\ ReceiveOp(p[1], connected[p[1]], <<OpAt(t)>>)
          /\ Deliver
    \/ \E p \in Peers, t \in Timestamps :
          IsConnected(p[1])
          /\ ReceiveSyncStep2(p[1], connected[p[1]], <<OpAt(t)>>, <<>>, t)
          /\ Deliver
    \/ RunRebase /\ Deliver

SpecDelivery == Init /\ [][NextDelivery]_vars

\* ------------------------------------------------- replicas and authority
\* Two write-capable replicas run the outbound protocol against the authority:
\* rA over connection k1, rB over connection k2.  A message is handled by the
\* authority, and what the authority sends is applied by the replicas it is
\* sent to, in one step.
ClientKeyOf(r) == IF r = "rA" THEN "k1" ELSE "k2"

\* an HLC timestamp embeds its producer: rA's are odd, rB's even
Produces(r, t) == IF r = "rA" THEN t % 2 = 1 ELSE t % 2 = 0

\* the replica's clock reading: never before what it has seen; taken as the
\* greatest timestamp seen, which for a replica that has seen nothing is before
\* every operation
hlcNow(c) == c.clock

\* a replica produces the operation of timestamp t, later than all it has seen
ClientCreate(r, t) ==
    /\ Produces(r, t)
    /\ t > clients[r].clock
    /\ Become(Cur, Event("create", {}))
    /\ clients' = [clients EXCEPT ![r].ops = @ \cup {OpAt(t)},
                                  ![r].unsent = @ \cup {OpAt(t)},
                                  ![r].made = @ \cup {OpAt(t)},
                                  ![r].clock = t]
    /\ UNCHANGED <<delivered, suspended, batch, oidCase, databases, files, called, project>>

ClientConnect(r) ==
    /\ clients[r].phase = "offline"
    /\ Connect(ClientKeyOf(r), r)
    /\ clients' = [clients EXCEPT ![r].phase = "connected"]
    /\ UNCHANGED <<delivered, suspended, batch, oidCase, databases, files, called, project>>

\* step 1 and 2 of the outbound protocol: sync, and the sync-resp is applied
ClientSync(r) ==
    /\ clients[r].phase = "connected"
    /\ ReceiveSync(ClientKeyOf(r), r, FALSE)
    /\ clients' = deliverAll(clients, sent', connected')
    /\ UNCHANGED <<delivered, suspended, batch, oidCase, databases, files, called, project>>

\* step 3: sync-step2, which empties the outbound buffer
ClientStep2(r) ==
    LET c == clients[r]
    IN  /\ c.phase = "syncing"
        /\ ReceiveSyncStep2(ClientKeyOf(r), r, newerThan(c, c.since),
                            baselinesNewerThan(c, c.since), hlcNow(c))
        /\ clients' = deliverAll([clients EXCEPT ![r].unsent = {},
                                                 ![r].phase = "active"],
                                 sent', connected')
        /\ UNCHANGED <<delivered, suspended, batch, oidCase, databases, files, called, project>>

\* step 4: an active replica sends the operations it produced
ClientSendOps(r) ==
    /\ clients[r].phase = "active"
    /\ clients[r].unsent # {}
    /\ ReceiveOp(ClientKeyOf(r), r, SortByTimestamp(clients[r].unsent))
    /\ clients' = deliverAll([clients EXCEPT ![r].unsent = {}], sent', connected')
    /\ UNCHANGED <<delivered, suspended, batch, oidCase, databases, files, called, project>>

\* step 4: an active replica acknowledges the greatest timestamp it applied
ClientAck(r) ==
    /\ clients[r].phase = "active"
    /\ clients[r].clock # NullTs
    /\ ReceiveAck(ClientKeyOf(r), r, clients[r].clock)
    /\ clients' = deliverAll(clients, sent', connected')
    /\ UNCHANGED <<delivered, suspended, batch, oidCase, databases, files, called, project>>

\* connection loss: the engine goes offline and keeps its local state
ClientDisconnect(r) ==
    /\ clients[r].phase # "offline"
    /\ Disconnect(ClientKeyOf(r))
    /\ clients' = [deliverAll(clients, sent', connected') EXCEPT
                      ![r].phase = "offline"]
    /\ UNCHANGED <<delivered, suspended, batch, oidCase, databases, files, called, project>>

AuthorityRebase ==
    /\ RunRebase
    /\ clients' = deliverAll(clients, sent', connected')
    /\ UNCHANGED <<delivered, suspended, batch, oidCase, databases, files, called, project>>

NextReplicas ==
    \/ \E r \in ReplicaIds, t \in Timestamps : ClientCreate(r, t)
    \/ \E r \in ReplicaIds : ClientConnect(r)
    \/ \E r \in ReplicaIds : ClientSync(r)
    \/ \E r \in ReplicaIds : ClientStep2(r)
    \/ \E r \in ReplicaIds : ClientSendOps(r)
    \/ \E r \in ReplicaIds : ClientAck(r)
    \/ \E r \in ReplicaIds : ClientDisconnect(r)
    \/ AuthorityRebase

SpecReplicas == Init /\ [][NextReplicas]_vars

\* ------------------------------------------------------------------ claims
\* what a step is, read from the state it leads to
IsRebaseStep == last'.type = "rebase"

OldSnapshot(oid) ==
    IF baselines[oid] = NoBaseline THEN EmptySnapshot ELSE baselines[oid].snapshot

\* C2 (I1): every operation in the log has a timestamp strictly greater than
\* the timestamp of the baseline stored for its oid.
C2_OpsAboveBaseline ==
    \A o \in operations :
        baselines[o.oid] = NoBaseline \/ o.timestamp > baselines[o.oid].timestamp

\* C3: for every rebase pass with global ack T and every oid it compacts, the
\* snapshot written to the oid's baseline is the old baseline (or the empty
\* object) with all of the oid's log operations below T applied in timestamp
\* order.
C3_RebasePreservesContent ==
    [][IsRebaseStep =>
        \A oid \in Oids :
            (\E o \in operations : o.oid = oid /\ o \notin operations') =>
                /\ baselines'[oid] # NoBaseline
                /\ baselines'[oid].snapshot =
                     applyAll(OldSnapshot(oid),
                        SortByTimestamp({o \in operations :
                            o.oid = oid /\ o.timestamp < rebaseGlobalAck(Cur)}))]_vars

\* a pass has just folded the two operations of o1 below the global ack 3
C3_Witness ==
    /\ last.type = "rebase"
    /\ last.rebased = {"o1"}
    /\ baselines["o1"] = [snapshot |-> [f |-> "y"], timestamp |-> 2]
    /\ \A o \in operations : o.oid # "o1"

\* C4: after a rebase pass with a non-null global ack T the log holds no
\* operation below T: all of them were dropped, each oid that had one has a
\* baseline carrying the greatest of their timestamps, and the rest of the log
\* is as before.
C4_NoOpBelowAckAfterRebase ==
    [][(IsRebaseStep /\ rebaseGlobalAck(Cur) # NullTs) =>
        /\ operations' = {o \in operations : o.timestamp >= rebaseGlobalAck(Cur)}
        /\ \A o \in operations : o.timestamp < rebaseGlobalAck(Cur) =>
              /\ baselines'[o.oid] # NoBaseline
              /\ baselines'[o.oid].timestamp >= o.timestamp]_vars

\* a pass has just compacted something and left a newer operation in the log
C4_Witness ==
    /\ last.type = "rebase"
    /\ last.rebased # {}
    /\ operations # {}

\* the replicas whose acknowledgement the claim makes a condition of compaction
InPresenceMap(r) ==
    \E u \in Users : presences[u] # NoPresence /\ presences[u].replicaId = r

Gates(r) ==
    /\ replicas[r] # NoReplica
    /\ \/ replicas[r].lastSeen = "recent" /\ replicas[r].type \notin ReadOnlyTypes
       \/ InPresenceMap(r)

OpReIn(s, k) == SelectSeq(s, LAMBDA e : e.to = k /\ e.msg.type = "op-re")

Forbidden(k) == [to |-> k, msg |-> [type |-> "forbidden"]]

\* C8: an op message with a non-empty operation list, accepted from the
\* connection k (write-capable token, replica of its own user), sends exactly
\* one op-re with those operations to every other connected clientKey and none
\* to k, whatever replicaId the other connections use; an op or sync-step2
\* with no operations and no baselines sends no op-re at all.
C8_RebroadcastFanOut ==
    [][\A k \in ClientKeys : IsConnected(k) =>
        /\ (hasWriteAccess(TokenOf(k))
              /\ validateReplicaAccess(Cur, connected[k], TokenOf(k))) =>
             \A ops \in BroadcastOpLists \ {<<>>} :
                ReceiveOp(k, connected[k], ops) =>
                   \A k2 \in ClientKeys :
                      /\ Len(OpReIn(sent', k2)) =
                            (IF k2 # k /\ IsConnected(k2) THEN 1 ELSE 0)
                      /\ \A i \in 1..Len(OpReIn(sent', k2)) :
                            OpReIn(sent', k2)[i].msg.operations = ops
        /\ (\/ ReceiveOp(k, connected[k], <<>>)
            \/ ReceiveSyncStep2(k, connected[k], <<>>, <<>>, MaxTs)) =>
             \A k2 \in ClientKeys : OpReIn(sent', k2) = <<>>]_vars

\* an op was rebroadcast to a connection that uses the sender's replicaId
C8_Witness ==
    /\ last.type = "op"
    /\ \E i \in 1..Len(sent) :
          /\ sent[i].msg.type = "op-re"
          /\ connected[sent[i].to] = sent[i].msg.replicaId
    /\ \E k \in ClientKeys : IsConnected(k) /\ OpReIn(sent, k) = <<>>

\* C9: an op or sync-step2 message with a ReadOnlyPull or ReadOnlyRealtime
\* token (naming a replica of the token's own user) is answered with forbidden
\* to the sender and nothing else is sent; the log, the baselines, every
\* replica's ackedLogicalTime and the scheduled rebases are as before.
C9_WriteAccess ==
    [][\A k \in ClientKeys :
        (/\ IsConnected(k)
         /\ TokenOf(k).type \in ReadOnlyTypes
         /\ validateReplicaAccess(Cur, connected[k], TokenOf(k))
         /\ \/ \E ops \in BroadcastOpLists : ReceiveOp(k, connected[k], ops)
            \/ \E i \in BroadcastStep2Inputs :
                  ReceiveSyncStep2(k, connected[k], i[1], i[2], i[3])) =>
            /\ sent' = <<Forbidden(k)>>
            /\ operations' = operations
            /\ baselines' = baselines
            /\ timers' = timers
            /\ \A r \in ReplicaIds :
                  /\ (replicas'[r] = NoReplica) = (replicas[r] = NoReplica)
                  /\ replicas[r] # NoReplica =>
                        replicas'[r].ackedLogicalTime = replicas[r].ackedLogicalTime
       ]_vars

\* a sync-step2 of the ReadOnlyPull connection was refused while the log held
\* operations and other connections were open
C9_Witness ==
    /\ last.type = "sync-step2"
    /\ sent = <<Forbidden("k4")>>
    /\ operations # {}
    /\ IsConnected("k1")

OpMessage(r, ops) == [type |-> "op", replicaId |-> r, operations |-> ops]

\* C6: in every reachable state, handling an op message and then the same
\* message again gives the log that the first handling gave; and the log never
\* holds two operations with the same (oid, timestamp).
C6_IdempotentIngest ==
    /\ \A a, b \in operations :
          (a.oid = b.oid /\ a.timestamp = b.timestamp) => a = b
    /\ \A p \in Speakers, ops \in OpLists :
          LET once == handleOperation(Cur, OpMessage(p[2], ops), p[1], TokenOf(p[1]))
              twice == handleOperation(once, OpMessage(p[2], ops), p[1], TokenOf(p[1]))
          IN  twice.operations = once.operations

\* two op messages were handled, no compaction took place, and the log holds
\* one operation: both carried that operation
C6_Witness ==
    /\ last.type = "op"
    /\ timers = MaxPending
    /\ Cardinality(operations) = 1
    /\ \A oid \in Oids : baselines[oid] = NoBaseline
    /\ \A r \in ReplicaIds : replicas[r] = NoReplica

\* the connections whose token's user is not the owner of the replica they name
Intruders ==
    {k \in ClientKeys :
        IsConnected(k) /\ ~validateReplicaAccess(Cur, connected[k], TokenOf(k))}

\* C10: a message naming a replica registered under another user is answered
\* with forbidden to its sender, and the log, the baselines, the registry and
\* the presence map stay as they were, with nothing else sent.
C10_ReplicaOwnership ==
    [][thrown' =>
        /\ \E k \in Intruders : sent' = <<Forbidden(k)>>
        /\ operations' = operations
        /\ baselines' = baselines
        /\ replicas' = replicas
        /\ presences' = presences]_vars

\* C7: no step hands the sender an op-re for a connection that carries an
\* operation (by oid and timestamp) which an earlier op-re already carried to
\* that connection.
C7_AtMostOnceBroadcast ==
    [][\A k \in ClientKeys : CarriedTo(sent', k) \cap delivered[k] = {}]_vars

\* every operation any replica produced
AllMade == UNION {clients[r].made : r \in ReplicaIds}

\* all messages are exchanged and processed: every replica is connected and
\* through the handshake, has nothing left to send, has acknowledged the
\* greatest timestamp it holds, and no rebase pass is pending
Quiescent ==
    /\ timers = 0
    /\ \A r \in ReplicaIds :
          /\ clients[r].phase = "active"
          /\ clients[r].unsent = {}
          /\ replicas[r] # NoReplica
          /\ replicas[r].ackedLogicalTime >= clients[r].clock

\* the replica holds the operation, in its log or folded into a baseline
Holds(c, o) ==
    \/ o \in c.ops
    \/ c.baselines[o.oid] # NoBaseline /\ c.baselines[o.oid].timestamp >= o.timestamp

\* C1: once all messages are exchanged and processed, every replica shows for
\* every oid the result of applying all operations produced on that oid in
\* timestamp order, and holds every operation the authority ingested.
C1_Convergence ==
    Quiescent =>
        \A r \in ReplicaIds :
            /\ \A oid \in Oids :
                  materialise(clients[r], oid) =
                     applyAll(EmptySnapshot,
                              SortByTimestamp({o \in AllMade : o.oid = oid}))
            /\ \A o \in AllMade : Holds(clients[r], o)

\* the registry status a sync of replica r meets, and the acknowledgement the
\* registry then holds for it, read from the state before the step
StatusBefore(r, resyncAll) ==
    IF resyncAll \/ replicas[r] = NoReplica THEN "new"
    ELSE IF replicas[r].lastSeen = "old" THEN "truant" ELSE "existing"

AckedBefore(r, resyncAll) ==
    IF resyncAll \/ replicas[r] = NoReplica THEN NullTs
    ELSE replicas[r].ackedLogicalTime

ChangesSinceBefore(r, resyncAll) ==
    IF StatusBefore(r, resyncAll) = "existing" THEN AckedBefore(r, resyncAll)
    ELSE NullTs

LibraryHoldsNothing ==
    operations = {} /\ \A oid \in Oids : baselines[oid] = NoBaseline

\* C11: the sync-resp of every sync has overwriteLocalData true exactly when
\* (resyncAll was requested or the replica's status is new or truant) and the
\* library is not empty (changesSince null, no operations and no baselines in
\* the response); a replica joining a library that holds nothing is not told
\* to overwrite.
C11_OverwriteLocalData ==
    [][\A p \in Speakers, resyncAll \in BOOLEAN :
        ReceiveSync(p[1], p[2], resyncAll) =>
            LET m == sent'[1].msg
                empty == /\ ChangesSinceBefore(p[2], resyncAll) = NullTs
                         /\ m.operations = <<>>
                         /\ m.baselines = <<>>
            IN  /\ Len(sent') = 1 /\ m.type = "sync-resp"
                /\ m.overwriteLocalData =
                      ((resyncAll \/ StatusBefore(p[2], resyncAll) # "existing")
                       /\ ~empty)
                /\ LibraryHoldsNothing => ~m.overwriteLocalData]_vars

\* a replica that had acknowledged and went truant was told to overwrite
C11_Witness ==
    /\ last.type = "sync"
    /\ sent[1].msg.overwriteLocalData
    /\ sent[1].msg.provideChangesSince # NullTs

Stripped(ops) ==
    {[oid |-> o.oid, timestamp |-> o.timestamp, data |-> o.data] : o \in ops}

StoredBaselines ==
    {[oid |-> oid, snapshot |-> baselines[oid].snapshot,
      timestamp |-> baselines[oid].timestamp] :
        oid \in {o \in Oids : baselines[o] # NoBaseline}}

Ascending(list) ==
    \A i, j \in 1..Len(list) : i < j => list[i].timestamp <= list[j].timestamp

\* list holds each member of set once, in ascending timestamp order
ListsExactly(list, set) ==
    /\ SeqToSet(list) = set
    /\ Len(list) = Cardinality(set)
    /\ Ascending(list)

\* C12: the sync-resp for a replica of status existing lists exactly the log
\* operations whose timestamp is greater than the replica's acknowledged one,
\* and the baselines after it, in ascending order; for a new or truant replica
\* it lists the whole log and every baseline.
C12_SyncRespContents ==
    [][\A p \in Speakers, resyncAll \in BOOLEAN :
        ReceiveSync(p[1], p[2], resyncAll) =>
            LET m == sent'[1].msg
                acked == AckedBefore(p[2], resyncAll)
            IN  IF StatusBefore(p[2], resyncAll) = "existing"
                THEN /\ ListsExactly(m.operations,
                            Stripped({o \in operations : o.timestamp > acked}))
                     /\ ListsExactly(m.baselines,
                            {b \in StoredBaselines : b.timestamp > acked})
                ELSE /\ ListsExactly(m.operations, Stripped(operations))
                     /\ ListsExactly(m.baselines, StoredBaselines)]_vars

\* an existing replica was sent part of the log: the operations above its
\* acknowledgement, while the log holds one at or below it
C12_Witness ==
    /\ last.type = "sync"
    /\ sent[1].msg.operations # <<>>
    /\ ~sent[1].msg.overwriteLocalData
    /\ \E o \in operations : o.timestamp <= sent[1].msg.provideChangesSince

\* C13: a sync with resyncAll makes the replica new: the sync-resp lists the
\* whole log and every baseline, provideChangesSince is null, the registry
\* holds no acknowledgement for the replica afterwards, and overwriteLocalData
\* is true whenever the library holds an operation or a baseline.
C13_ResyncAll ==
    [][\A p \in Speakers :
        ReceiveSync(p[1], p[2], TRUE) =>
            LET m == sent'[1].msg
            IN  /\ ListsExactly(m.operations, Stripped(operations))
                /\ ListsExactly(m.baselines, StoredBaselines)
                /\ m.provideChangesSince = NullTs
                /\ replicas'[p[2]] # NoReplica
                /\ replicas'[p[2]].ackedLogicalTime = NullTs
                /\ m.overwriteLocalData = ~LibraryHoldsNothing]_vars

\* a replica that had uploaded operations has resynced and is told to overwrite
C13_Witness ==
    /\ last.type = "resync"
    /\ sent[1].msg.overwriteLocalData
    /\ sent[1].msg.provideChangesSince = NullTs
    /\ \E p \in Speakers :
          /\ sent[1].to = p[1]
          /\ replicas[p[2]].ackedLogicalTime = NullTs
          /\ \E o \in operations : o.replicaId = p[2]

HasKey(log, op) ==
    \E o \in log : o.oid = op.oid /\ o.timestamp = op.timestamp

\* C14: a sync-step2 of a write-capable replica leaves each of its baselines
\* stored for its oid and each of its operations in the log, sends one op-re
\* with them to every other open connection, and sets the registered replica's
\* acknowledgement to the greater of its old value and the last operation's
\* timestamp, or the message's timestamp when it carries no operations.
C14_SyncStep2 ==
    [][\A p \in Speakers, i \in HandshakeStep2Inputs :
        (last'.type = "sync-step2"
            /\ ReceiveSyncStep2(p[1], p[2], i[1], i[2], i[3])) =>
            /\ \A oid \in Oids :
                  IF \E n \in 1..Len(i[2]) : i[2][n].oid = oid
                  THEN \E n \in 1..Len(i[2]) :
                          /\ i[2][n].oid = oid
                          /\ baselines'[oid] = [snapshot |-> i[2][n].snapshot,
                                                timestamp |-> i[2][n].timestamp]
                  ELSE baselines'[oid] = baselines[oid]
            /\ operations \subseteq operations'
            /\ \A n \in 1..Len(i[1]) : HasKey(operations', i[1][n])
            /\ \A o \in operations' \ operations :
                  /\ o.replicaId = p[2]
                  /\ \E n \in 1..Len(i[1]) : Stripped({o}) = {i[1][n]}
            /\ \A k \in ClientKeys :
                  /\ Len(OpReIn(sent', k)) =
                        (IF k # p[1] /\ IsConnected(k) THEN 1 ELSE 0)
                  /\ \A n \in 1..Len(OpReIn(sent', k)) :
                        /\ OpReIn(sent', k)[n].msg.operations = i[1]
                        /\ OpReIn(sent', k)[n].msg.baselines = i[2]
            /\ replicas[p[2]] # NoReplica =>
                  replicas'[p[2]].ackedLogicalTime =
                     MaxOf(replicas[p[2]].ackedLogicalTime,
                           IF i[1] # <<>> THEN Last(i[1]).timestamp ELSE i[3])]_vars

\* an upload was rebroadcast to the peer and raised the replica's
\* acknowledgement to its operation's timestamp, below the message's own
C14_Witness ==
    /\ last.type = "sync-step2"
    /\ \E n \in 1..Len(sent) :
          /\ sent[n].msg.type = "op-re"
          /\ sent[n].msg.operations # <<>>
          /\ replicas[sent[n].msg.replicaId] # NoReplica
          /\ replicas[sent[n].msg.replicaId].ackedLogicalTime =
                Last(sent[n].msg.operations).timestamp
          /\ replicas[sent[n].msg.replicaId].ackedLogicalTime < MaxTs

\* C15: between two handshakes (on every step that is not the handling of a
\* sync) a registered replica stays registered and its acknowledgement does
\* not decrease; an ack sets it to the greater of the stored value and the
\* message's timestamp, so an ack with an older timestamp leaves it unchanged.
C15_AckMonotone ==
    [][/\ last'.type \notin {"sync", "resync"} =>
            \A r \in ReplicaIds : replicas[r] # NoReplica =>
                /\ replicas'[r] # NoReplica
                /\ replicas'[r].ackedLogicalTime >= replicas[r].ackedLogicalTime
       /\ \A p \in Speakers, t \in Timestamps :
            (last'.type = "ack" /\ replicas[p[2]] # NoReplica
                /\ ReceiveAck(p[1], p[2], t)) =>
                /\ replicas'[p[2]].ackedLogicalTime =
                      (IF t > replicas[p[2]].ackedLogicalTime
                       THEN t ELSE replicas[p[2]].ackedLogicalTime)
                /\ \A r \in ReplicaIds \ {p[2]} :
                      replicas'[r] = replicas[r]]_vars

\* an ack older than the stored acknowledgement has just been handled
C15_Witness ==
    /\ last.type = "ack"
    /\ \A r \in ReplicaIds :
          /\ replicas[r] # NoReplica
          /\ replicas[r].ackedLogicalTime > last.timestamp

\* the global-ack messages a step handed to the sender for connection k
GlobalAckIn(s, k) == SelectSeq(s, LAMBDA e : e.to = k /\ e.msg.type = "global-ack")

\* the global ack over the registry with replica r's acknowledgement raised to t
GlobalAckWith(r, t) ==
    LET counted == {q \in ReplicaIds : replicas[q] # NoReplica
                        /\ ~isTruant(replicas[q])
                        /\ replicas[q].type \notin ReadOnlyTypes}
        ackOf(q) == IF q = r /\ t > replicas[q].ackedLogicalTime
                    THEN t ELSE replicas[q].ackedLogicalTime
    IN  IF counted = {} \/ \E q \in counted : ackOf(q) = NullTs THEN NullTs
        ELSE MinTs({ackOf(q) : q \in counted})

GlobalAckBroadcast(r, t) ==
    LET prior == GlobalAckWith(r, NullTs)
        new == GlobalAckWith(r, t)
    IN  \A k \in ClientKeys :
            GlobalAckIn(sent', k) =
                IF new # NullTs /\ new > prior /\ IsConnected(k)
                THEN <<[to |-> k, msg |-> [type |-> "global-ack", timestamp |-> new]]>>
                ELSE <<>>

\* C16: handling an ack, or the acknowledgement of a sync-step2, hands the
\* sender one global-ack carrying the new global ack for every open connection
\* exactly when the global ack computed after the update is set and greater
\* than the one computed before it, and no global-ack otherwise.
C16_GlobalAckBroadcast ==
    [][/\ \A p \in Speakers, t \in Timestamps :
            (last'.type = "ack" /\ ReceiveAck(p[1], p[2], t)) =>
                GlobalAckBroadcast(p[2], t)
       /\ \A p \in Speakers, i \in HandshakeStep2Inputs :
            (last'.type = "sync-step2"
                /\ ReceiveSyncStep2(p[1], p[2], i[1], i[2], i[3])) =>
                GlobalAckBroadcast(p[2], IF i[1] # <<>> THEN Last(i[1]).timestamp
                                         ELSE i[3])]_vars

\* an ack has just advanced the global ack of two registered replicas and both
\* open connections were sent it
C16_Witness ==
    /\ last.type = "ack"
    /\ \A r \in ReplicaIds : replicas[r] # NoReplica
    /\ \A p \in Speakers :
          /\ IsConnected(p[1])
          /\ GlobalAckIn(sent, p[1]) =
                <<[to |-> p[1], msg |-> [type |-> "global-ack",
                                         timestamp |-> last.timestamp]]>>
    /\ \E r \in ReplicaIds : replicas[r].ackedLogicalTime > last.timestamp

\* C17: rebase triggers coalesce, so at most one rebase pass is pending at
\* any time, however many op messages were handled since the last pass ran.
C17_TriggersCoalesce == timers <= 1

\* a replica whose acknowledgement gates compaction has never acknowledged
NeverAcknowledged ==
    \E r \in ReplicaIds : Gates(r) /\ replicas[r].ackedLogicalTime = NullTs

\* C18: a rebase pass that finds the global ack null, as it does when a
\* qualifying replica or a replica in the presence map has never acknowledged
\* anything, leaves the log and the baselines as they were and hands nothing
\* to the sender.
C18_NullGlobalAckAborts ==
    [][IsRebaseStep =>
        /\ NeverAcknowledged => rebaseGlobalAck(Cur) = NullTs
        /\ rebaseGlobalAck(Cur) = NullTs =>
              /\ operations' = operations
              /\ baselines' = baselines
              /\ sent' = <<>>]_vars

\* a pass has just aborted over a connected reader that never acknowledged,
\* although the writer had acknowledged past an operation still in the log
C18_Witness ==
    /\ last.type = "rebase"
    /\ last.rebased = {}
    /\ \A p \in GateSpeakers : IsConnected(p[1]) /\ replicas[p[2]] # NoReplica
    /\ InPresenceMap("rB")
    /\ replicas["rB"].ackedLogicalTime = NullTs
    /\ \E o \in operations : replicas["rA"].ackedLogicalTime > o.timestamp

\* the log holds an operation at t, and every replica is registered and has
\* acknowledged a timestamp greater than t
AcknowledgedInLog(t) ==
    /\ \E o \in operations : o.timestamp = t
    /\ \A r \in ReplicaIds :
          replicas[r] # NoReplica /\ replicas[r].ackedLogicalTime > t

\* C19: an operation in the log that every replica has acknowledged past is
\* eventually folded into a baseline and deleted from the log, whether or not
\* another write arrives after the acknowledgements.
C19_EventualCompaction ==
    \A t \in Timestamps :
        AcknowledgedInLog(t) ~> (\A o \in operations : o.timestamp # t)

\* the baselines of a list are the ones stored for their oids
BaselinesStored(bases, list) ==
    \A n \in 1..Len(list) :
        bases[list[n].oid] = [snapshot |-> list[n].snapshot,
                              timestamp |-> list[n].timestamp]

\* C20: a step that spans stores is all or nothing, also when it fails: after
\* a rebase pass, completed or interrupted, no operation that was in the log
\* at or below the timestamp of a baseline the pass wrote is still in the log;
\* after a sync-step2, completed or interrupted, its baselines are stored if
\* and only if its operations are.
C20_AllOrNothing ==
    [][/\ last'.type \in {"rebase", "rebase-failed"} =>
            \A oid \in Oids : baselines'[oid] # baselines[oid] =>
                \A o \in operations :
                    (o.oid = oid /\ o.timestamp <= baselines'[oid].timestamp)
                        => o \notin operations'
       /\ \A p \in Speakers, i \in FailureStep2Inputs :
            (/\ last'.type \in {"sync-step2", "sync-step2-failed"}
             /\ \/ ReceiveSyncStep2(p[1], p[2], i[1], i[2], i[3])
                \/ ReceiveSyncStep2Interrupted(p[1], p[2], i[1], i[2], i[3]))
                => (BaselinesStored(baselines', i[2])
                        <=> \A n \in 1..Len(i[1]) : HasKey(operations', i[1][n]))]_vars

\* the steps in which the authority starts to handle a message
HandlingStarts ==
    {"op", "sync", "resync", "sync-step2", "ack", "heartbeat", "presence-update"}

\* C21: handlers of one library never interleave: the authority starts to
\* handle a message only when no earlier handling is still short of its last
\* effect, so no presence-update is waiting for its profile at that moment.
C21_NoInterleaving ==
    [][last'.type \in HandlingStarts => suspended = <<>>]_vars

\* the presence-changed messages a step handed to the sender for connection k
PresenceChangedIn(s, k) ==
    SelectSeq(s, LAMBDA e : e.to = k /\ e.msg.type = "presence-changed")

\* what a presence-update of user u makes known
UserInfoOf(message, u) ==
    [id |-> u, presence |-> message.presence, profile |-> profileOf(u),
     replicaId |-> message.replicaId]

\* C22: a presence-update that is handled stores the sender's presence under
\* the sender's userId, and hands the sender one presence-changed with the
\* user's id, replicaId, new presence and profile for every open connection,
\* the sender's own included.
C22_PresenceChanged ==
    [][\A i \in 1..MaxSuspended :
        (/\ last'.type \in {"presence-set", "presence-changed"}
         /\ i <= Len(suspended)
         /\ ResumePresenceUpdate(i)) =>
            LET h == suspended[i]
                u == TokenOf(h.clientKey).userId
            IN  IF h.await = "set"
                THEN presences'[u] =
                        [presence |-> h.message.presence,
                         replicaId |-> h.message.replicaId,
                         profile |-> profileOf(u), id |-> u]
                ELSE \A k \in ClientKeys :
                        PresenceChangedIn(sent', k) =
                            IF IsConnected(k)
                            THEN <<[to |-> k,
                                    msg |-> [type |-> "presence-changed",
                                             replicaId |-> h.message.replicaId,
                                             userInfo |-> UserInfoOf(h.message, u)]]>>
                            ELSE <<>>]_vars

\* a presence that was stored has just been sent to both open connections,
\* the one of the replica that announced it included
C22_Witness ==
    /\ last.type = "presence-changed"
    /\ \A p \in Speakers : IsConnected(p[1])
    /\ Len(sent) = 2
    /\ \E n \in 1..Len(sent) : connected[sent[n].to] = sent[n].msg.replicaId
    /\ presences["u1"] # NoPresence
    /\ presences["u1"].presence = sent[1].msg.userInfo.presence

\* the presence-offline messages a step handed to the sender for connection k
PresenceOfflineIn(s, k) ==
    SelectSeq(s, LAMBDA e : e.to = k /\ e.msg.type = "presence-offline")

\* the other open connections of the user of connection k
OtherReplicasOf(k) ==
    {k2 \in ClientKeys \ {k} :
        IsConnected(k2) /\ TokenOf(k2).userId = TokenOf(k).userId}

\* C23: removing a replica while another replica of the same user is still
\* connected sends no presence-offline; removing the last connected replica
\* of a user whose presence is known sends exactly one presence-offline with
\* that userId to every remaining connection.
C23_PresenceOffline ==
    [][\A p \in Speakers :
        (last'.type = "disconnect" /\ Disconnect(p[1])) =>
            IF OtherReplicasOf(p[1]) # {}
            THEN \A k \in ClientKeys : PresenceOfflineIn(sent', k) = <<>>
            ELSE presences[TokenOf(p[1]).userId] # NoPresence =>
                    \A k \in ClientKeys :
                        PresenceOfflineIn(sent', k) =
                            IF connected'[k] # NotConnected
                            THEN <<[to |-> k,
                                    msg |-> [type |-> "presence-offline",
                                             replicaId |-> connected[p[1]],
                                             userId |-> TokenOf(p[1]).userId]]>>
                            ELSE <<>>]_vars


\* ------------------------------------------------------------ superseding
\* a batch is committed by this step
Committing == last'.type = "op" /\ batch.ops # <<>> /\ batch'.ops = <<>>

\* what the authority's log gained by this step, as the replica sent it
Stored == {removeExtraOperationData(o) : o \in operations' \ operations}

OnField(o, oid, name) == o.oid = oid /\ o.data.op \in FieldOps /\ o.data.name = name

\* the places of a batch where (oid, name) is set / deleted / the object initialized
SetsOf(made, oid, name) ==
    {i \in 1..Len(made) : OnField(made[i], oid, name) /\ made[i].data.op = "set"}

DeletesOf(made, oid, name) ==
    {i \in 1..Len(made) : OnField(made[i], oid, name) /\ made[i].data.op = "delete"}

InitializesOf(made, oid) ==
    {i \in 1..Len(made) : made[i].oid = oid /\ made[i].data.op = "initialize"}

Highest(places) == CHOOSE i \in places : \A j \in places : j <= i

BatchFields == {"f", "g"}

\* the first batch of the superseding test: ten sets of one field
TenSets ==
    [i \in 1..10 |-> BatchOperation([oid |-> "o1", op |-> "set", name |-> "content"], i)]

\* C24: when a batch whose operations on a field (oid, name) are k >= 1 sets,
\* none followed by an initialize of the object, is committed, the log gains
\* exactly one operation on that field, and it is the last of the sets, with
\* its payload and its timestamp; ten sets of one field leave the tenth.
C24_LastSetStored ==
    [][Committing =>
        /\ supersede(TenSets) = <<TenSets[10]>>
        /\ \A oid \in Oids, name \in BatchFields :
              LET sets == SetsOf(batch.ops, oid, name)
              IN  (/\ sets # {}
                   /\ DeletesOf(batch.ops, oid, name) = {}
                   /\ \A i \in InitializesOf(batch.ops, oid) : i < Highest(sets))
                  => {o \in Stored : OnField(o, oid, name)}
                        = {batch.ops[Highest(sets)]}]_vars

\* a batch of two sets of (o1, f) and nothing else was committed, and the log
\* holds the second alone
C24_Witness ==
    /\ last.type = "op"
    /\ Len(batch.committed) = 2
    /\ SetsOf(batch.committed, "o1", "f") = {1, 2}
    /\ operations # {}
    /\ \A o \in operations : removeExtraOperationData(o) = batch.committed[2]


\* the second batch of the superseding test: one set of a field, ten sets of
\* another, and a delete of that other field
SetsThenDelete ==
    [i \in 1..12 |->
        IF i = 1
        THEN BatchOperation([oid |-> "o1", op |-> "set", name |-> "purchased"], 10 + i)
        ELSE IF i = 12
        THEN BatchOperation([oid |-> "o1", op |-> "delete", name |-> "categoryId"], 10 + i)
        ELSE BatchOperation([oid |-> "o1", op |-> "set", name |-> "categoryId"], 10 + i)]

\* C25: when a batch in which sets of a field (oid, name) are followed by a
\* delete of that field, with no later operation on the field and no later
\* initialize of the object, is committed, the log gains exactly one operation
\* on that field, and it is the delete: none of the sets is stored.
C25_DeleteSupersedesSets ==
    [][Committing =>
        /\ \A i \in 1..Len(supersede(SetsThenDelete)) :
              supersede(SetsThenDelete)[i].data.name = "categoryId"
                  => supersede(SetsThenDelete)[i] = SetsThenDelete[12]
        /\ \A oid \in Oids, name \in BatchFields :
              LET sets == SetsOf(batch.ops, oid, name)
                  deletes == DeletesOf(batch.ops, oid, name)
              IN  (/\ deletes # {}
                   /\ \A i \in sets \cup InitializesOf(batch.ops, oid) :
                         i < Highest(deletes))
                  => {o \in Stored : OnField(o, oid, name)}
                        = {batch.ops[Highest(deletes)]}]_vars

\* a batch of a set of (o1, f) and then a delete of (o1, f) was committed, and
\* the log holds the delete alone
C25_Witness ==
    /\ last.type = "op"
    /\ Len(batch.committed) = 2
    /\ SetsOf(batch.committed, "o1", "f") = {1}
    /\ DeletesOf(batch.committed, "o1", "f") = {2}
    /\ operations # {}
    /\ \A o \in operations : removeExtraOperationData(o) = batch.committed[2]


\* B has the effect key of A: both set or delete the same field of the same
\* object, or B initializes the object of A
SameEffectKey(B, A) ==
    /\ B.oid = A.oid
    /\ \/ B.data.op = "initialize"
       \/ /\ B.data.op \in FieldOps
          /\ A.data.op \in FieldOps
          /\ B.data.name = A.data.name

\* the places of a batch a later operation of the batch has the effect key of
Superseded(made) ==
    {i \in 1..Len(made) : \E j \in (i + 1)..Len(made) : SameEffectKey(made[j], made[i])}

\* the places of a batch whose operation the log did not gain
Dropped(made) == {i \in 1..Len(made) : made[i] \notin Stored}

LogAfterTenSets == insertAll({}, "rA", supersede(TenSets))

LogAfterSetsThenDelete == insertAll(LogAfterTenSets, "rA", supersede(SetsThenDelete))

\* C27: no step modifies or removes an operation of the log; when a batch
\* with a set or delete of a field the log already has an operation on, and
\* with no later initialize of the object, is committed, the log keeps that
\* operation and gains one on the field with a greater timestamp, so the log
\* never shrinks; the test's batches leave 1 operation and then 3.
C27_TransmittedImmutable ==
    [][/\ operations \subseteq operations'
       /\ Cardinality(operations') >= Cardinality(operations)
       /\ Committing =>
            /\ Cardinality(LogAfterTenSets) = 1
            /\ Cardinality(LogAfterSetsThenDelete) = 3
            /\ \A o \in operations, i \in 1..Len(batch.ops) :
                  (/\ OnField(o, o.oid, o.data.name)
                   /\ OnField(batch.ops[i], o.oid, o.data.name)
                   /\ \A j \in InitializesOf(batch.ops, o.oid) : j < i)
                  => \E n \in operations' \ operations :
                        /\ OnField(n, o.oid, o.data.name)
                        /\ n.timestamp > o.timestamp]_vars

\* two batches were committed, each with a set of (o1, f): the log holds both
\* sets, the second with the greater timestamp
C27_Witness ==
    /\ last.type = "op"
    /\ SetsOf(batch.committed, "o1", "f") # {}
    /\ \E a \in operations, b \in operations :
          /\ OnField(a, "o1", "f") /\ a.data.op = "set"
          /\ OnField(b, "o1", "f") /\ b.data.op = "set"
          /\ a.timestamp < b.timestamp
          /\ removeExtraOperationData(b) = batch.committed[Len(batch.committed)]
          /\ \A i \in 1..Len(batch.committed) : batch.committed[i].timestamp > a.timestamp


\* ------------------------------------------------------ object identifiers
\* C28: the range computed for a root OID r is exactly <<r, r ":\uFFFF">>, its
\* start is before its end, r is within it, and every OID assigned under r
\* (r.<fieldPath>:<localId> or r:<localId>) is within it.
C28_OidRange ==
    oidCase.range # <<>> =>
        /\ oidCase.range = <<oidCase.root, oidCase.root \o <<":", "uFFFF">>>>
        /\ Before(oidCase.range[1], oidCase.range[2])
        /\ isWithin(oidCase.root, oidCase.range[1], oidCase.range[2])
        /\ (oidCase.oid # <<>> /\ oidCase.under = oidCase.root
                => isWithin(oidCase.oid, oidCase.range[1], oidCase.range[2]))

\* the range of a root is computed and an OID assigned under it at a nested
\* field path lies within
C28_Witness ==
    /\ oidCase.range # <<>>
    /\ oidCase.root # oidCase.other
    /\ oidCase.under = oidCase.root
    /\ \E localId \in LocalIds :
          oidCase.oid = createSubOid(oidCase.root, <<".", "f", ".", "#">>, localId)
    /\ isWithin(oidCase.oid, oidCase.range[1], oidCase.range[2])

\* C29: the range computed for a root OID r holds no OID of another document:
\* neither a root OID r' other than r nor an OID assigned under r' is within it.
C29_RangeExcludesOthers ==
    (oidCase.range # <<>> /\ oidCase.root # oidCase.other) =>
        /\ ~isWithin(oidCase.other, oidCase.range[1], oidCase.range[2])
        /\ (oidCase.oid # <<>> /\ oidCase.under = oidCase.other
                => ~isWithin(oidCase.oid, oidCase.range[1], oidCase.range[2]))


\* -------------------------------------------------------- prefix compaction
\* the operations a rebase pass took out of the log
Compacted == operations \ operations'

\* C30: a rebase pass compacts, of each oid, a prefix of the oid's log in
\* timestamp order: no operation of the oid left in the log is older than a
\* compacted one, and every operation of the oid later than a skipped one is
\* skipped too.
C30_PrefixCompaction ==
    [][IsRebaseStep =>
        /\ operations' \subseteq operations
        /\ \A c \in Compacted, o \in operations' :
              o.oid = c.oid => o.timestamp > c.timestamp
        /\ \A skipped \in operations \cap operations', o \in operations :
              (o.oid = skipped.oid /\ o.timestamp > skipped.timestamp)
                  => o \in operations']_vars

\* a pass compacted operations of an oid and skipped a later one of the same
\* oid: the baseline it wrote is older than the operation it left
C30_Witness ==
    /\ last.type = "rebase"
    /\ \E o \in operations :
          /\ o.oid \in last.rebased
          /\ baselines[o.oid] # NoBaseline
          /\ baselines[o.oid].timestamp < o.timestamp


\* ------------------------------------------------------- the hint of a pass
\* C31: a rebase pass whose global ack is set hands the sender, for every open
\* connection, a global-ack message with that global ack as its timestamp.
C31_PassBroadcastsGlobalAck ==
    [][(IsRebaseStep /\ rebaseGlobalAck(Cur) # NullTs) =>
        \A k \in ClientKeys :
            IsConnected(k) =>
                GlobalAckIn(sent', k) =
                    <<[to |-> k, msg |-> [type |-> "global-ack",
                                          timestamp |-> rebaseGlobalAck(Cur)]]>>]_vars


\* ---------------------------------------------------- acknowledged timestamps
\* C32 (I5): every registered replica's acknowledged timestamp is unset or the
\* timestamp of an operation the authority has received; where no pass runs,
\* the operations received are those of the log.
C32_AckedTimestampKnown ==
    \A r \in ReplicaIds :
        replicas[r] # NoReplica =>
            \/ replicas[r].ackedLogicalTime = NullTs
            \/ \E o \in operations : o.timestamp = replicas[r].ackedLogicalTime


\* ------------------------------------------------- global acks sent to clients
\* the global ack a message carries, if it carries one
GlobalAckOf(msg) ==
    IF msg.type = "global-ack" THEN msg.timestamp
    ELSE IF msg.type \in {"sync-resp", "op-re"} THEN msg.globalAckTimestamp
    ELSE NullTs

\* C33: every global ack the authority has just sent, in a sync-resp, an op-re
\* or a global-ack message, is at most the acknowledged timestamp of every
\* replica that has an open connection and has acknowledged at all, read-only
\* ones included, and at most the global ack a rebase pass would use in this
\* state.
C33_SentGlobalAckBounded ==
    \A i \in 1..Len(sent) :
        GlobalAckOf(sent[i].msg) # NullTs =>
            /\ \A k \in ClientKeys :
                  (/\ IsConnected(k)
                   /\ replicas[connected[k]] # NoReplica
                   /\ replicas[connected[k]].ackedLogicalTime # NullTs)
                  => GlobalAckOf(sent[i].msg) <= replicas[connected[k]].ackedLogicalTime
            /\ rebaseGlobalAck(Cur) # NullTs
            /\ GlobalAckOf(sent[i].msg) <= rebaseGlobalAck(Cur)


\* ---------------------------------------------------------------- Databases
\* the get calls that are waiting for openDatabase for a library
OpeningFor(l) == {i \in 1..Len(databases.opening) : databases.opening[i].libraryId = l}

\* the connections opened for a library with the migrations run
MigratedFor(l) ==
    {c \in 1..Len(databases.connections) :
        databases.connections[c].libraryId = l /\ databases.connections[c].migrated}

\* C34: per library there is at most one connection cached or being opened,
\* so that overlapping calls of get share one call of openDatabase and one
\* connection, and the migrations of a library run at most once.
C34_OneConnectionPerLibrary ==
    \A l \in Libraries :
        /\ Cardinality(OpeningFor(l))
              + (IF databases.cache[l] # NoDb THEN 1 ELSE 0) <= 1
        /\ Cardinality(MigratedFor(l)) <= 1

\* C35: when a library's connection leaves the cache it has been destroyed
\* and the library's close timer is not set; after destroy() every connection
\* opened so far has been destroyed.
C35_CloseDestroys ==
    [][/\ \A l \in Libraries :
            (databases.cache[l] # NoDb /\ databases'.cache[l] = NoDb) =>
                /\ databases'.connections[databases.cache[l].connection].destroyed
                /\ ~databases'.closeTimeouts[l]
       /\ last'.type = "destroy" =>
            \A c \in 1..Len(databases'.connections) :
                databases'.connections[c].destroyed]_vars


\* ---------------------------------------------------------------- C36, C37
\* the loads of file id that wait on `await`
LoadsOf(F, id, await) ==
    {i \in 1..Len(F.loads) : F.loads[i].id = id /\ F.loads[i].await = await}

\* the step resumed file id's load that waited on `await`
Resumed(id, await) ==
    /\ last'.type = "file-load"
    /\ Cardinality(LoadsOf(files', id, await)) < Cardinality(LoadsOf(files, id, await))

\* C36: get keeps one EntityFile per id and load is put off while offline. A
\* load that finds nothing in local storage while sync is not active
\* subscribes to onlineChange, leaves the failed mark as it was and asks the
\* server for nothing; sync.getFile is only ever called while sync is active;
\* going online removes every subscription and starts exactly one load for
\* each file that had one; a file has at most one subscription, and none while
\* sync is active; a load that heard from the server leaves the file updated
\* from the server's result or marked failed.
C36_LoadDeferredWhileOffline ==
    /\ [][\A id \in FileIds :
            /\ (last'.type = "file-get" /\ files.cache[id] # NoFile)
                  => files'.cache[id] = files.cache[id]
            /\ (Resumed(id, "local") /\ files.stored[id] = NoFileData
                                     /\ files.status # "active")
                  => /\ files'.subscribed[id] = files.subscribed[id] + 1
                     /\ files'.cache[id].failed = files.cache[id].failed
                     /\ files'.requested = files.requested
                     /\ LoadsOf(files', id, "server") = {}
            /\ files'.requested[id] > files.requested[id]
                  => files.status = "active"
            /\ last'.type = "online"
                  => /\ files'.subscribed[id] = 0
                     /\ Cardinality(LoadsOf(files', id, "local"))
                          = Cardinality(LoadsOf(files, id, "local"))
                            + (IF files.subscribed[id] > 0 THEN 1 ELSE 0)
            /\ Resumed(id, "server")
                  => \/ files'.cache[id].failed
                     \/ files'.cache[id].data = ServerFile(id)]_vars
    /\ [](\A id \in FileIds :
            /\ files.subscribed[id] <= 1
            /\ files.subscribed[id] > 0 => files.status # "active")

\* a load was put off while offline, tried again when sync went online, and
\* the file was then updated from the server's answer to its one request
C36_Witness ==
    \E id \in FileIds :
        /\ files.deferred[id]
        /\ files.requested[id] = 1
        /\ files.cache[id].data = ServerFile(id)
        /\ ~files.cache[id].failed
        /\ files.subscribed[id] = 0
        /\ LoadsOf(files, id, "local") \cup LoadsOf(files, id, "server") = {}


\* nothing of FileManager is still waiting on file id
Settled(F, id) ==
    /\ \A i \in 1..Len(F.loads) : F.loads[i].id # id
    /\ \A i \in 1..Len(F.adds) : F.adds[i].id # id
    /\ F.subscribed[id] = 0

\* C37: a file passed to add is not left marked failed by a load get started
\* for the same id: once add and every load of the id have run to their end,
\* the EntityFile is not failed and holds the file's data.
C37_AddedFileNotFailed ==
    \A id \in FileIds :
        (files.added[id] /\ Settled(files, id))
            => /\ ~files.cache[id].failed
               /\ files.cache[id].data # NoFileData


\* --------------------------------------------------------------------- C38
\* a and b are equal by value once the ignored keys are left out of every
\* object in them
RECURSIVE DeepEqual(_, _, _)
DeepEqual(a, b, ignored) ==
    IF a.t # b.t THEN FALSE
    ELSE IF a.t = "array"
    THEN /\ Len(a.items) = Len(b.items)
         /\ \A i \in 1..Len(a.items) : DeepEqual(a.items[i], b.items[i], ignored)
    ELSE IF a.t = "object"
    THEN LET ka == {a.props[i].key : i \in 1..Len(a.props)} \ ignored
             kb == {b.props[i].key : i \in 1..Len(b.props)} \ ignored
         IN  /\ ka = kb
             /\ \A k \in ka : DeepEqual(getProperty(a, k), getProperty(b, k), ignored)
    ELSE a = b

IgnoredKeys == IF called.options = NoOptions THEN {} ELSE called.options.ignoreKeys

\* C38: compareObjects(a, b, {ignoreKeys}) gives a boolean for every pair of
\* JSON values, null included; it gives true exactly when a and b are deeply
\* equal once the ignored keys are left out (also where an ignored key is in
\* only one of the two); and it gives the same for (b, a) as for (a, b).
C38_DeepEqualIgnoringKeys ==
    (called.fn = "compareObjects" /\ called.result # "none")
        => /\ called.result \in {"true", "false"}
           /\ called.result = "true" <=> DeepEqual(called.a, called.b, IgnoredKeys)
           /\ called.swapped # "none" => called.swapped = called.result


\* --------------------------------------------------------------------- C39
\* the names in seq are in ascending order of their version numbers
AscendingVersions(seq) ==
    \A i, j \in 1..Len(seq) : i < j => parseVersion(seq[i]) < parseVersion(seq[j])

\* C39: after a run of the CLI for version v, with the temporary output copied
\* into place, index.ts imports and exports every migration file of the
\* migrations directory, v's among them, in ascending order of version; and
\* upsertMigration returned true exactly when the directory held no migration
\* for v before the run.
C39_IndexListsEveryMigration ==
    project.ran
        => /\ project.migrations.index # NoIndex
           /\ {project.migrations.index.imports[i] :
                  i \in 1..Len(project.migrations.index.imports)}
                 = project.migrations.files
           /\ project.migrations.index.exports = project.migrations.index.imports
           /\ AscendingVersions(project.migrations.index.imports)
           /\ migrationName(project.version) \in project.migrations.files
           /\ project.migrationCreated
                 = (migrationName(project.version) \notin project.before.files)


\* --------------------------------------------------------------------- C40
\* the value is within the bounds computed for the prefix, ends included
WithinBounds(value) ==
    /\ (value = called.bounds[1] \/ Before(called.bounds[1], value))
    /\ (value = called.bounds[2] \/ Before(value, called.bounds[2]))

\* the field strings of the compound values made of called.fields, one
\* sequence for each value
CompoundItems ==
    LET value == expandFields(<<<<>>>>, called.fields)
    IN  {value[i] : i \in 1..Len(value)}

\* the strings createCompoundIndexValue gave
CompoundValues ==
    LET given == called.compound[1]
    IN  IF "one" \in DOMAIN given THEN {given.one}
        ELSE {given.many[i] : i \in 1..Len(given.many)}

LeadingFields(item) == SubSeq(item, 1, Len(called.prefix))

\* C40: the bounds made of fields f1..fn bracket the compound values that
\* begin with them: every compound value whose leading n fields are f1..fn and
\* whose next field is not empty lies from the lower bound to the upper bound
\* in string order, and no compound value whose leading n fields differ from
\* f1..fn does.
C40_BoundsBracketPrefix ==
    (called.fn = "index" /\ called.bounds # <<>> /\ called.compound # <<>>)
        => \A item \in CompoundItems :
              Len(item) > Len(called.prefix)
                 => /\ joinFields(item) \in CompoundValues
                    /\ (LeadingFields(item) = called.prefix
                          /\ item[Len(called.prefix) + 1] # <<>>)
                          => WithinBounds(joinFields(item))
                    /\ LeadingFields(item) # called.prefix
                          => ~WithinBounds(joinFields(item))

====
